---- MODULE Spec2Model ----
(***************************************************************************)
(* Milvus 2.x retriever of eino-ext: search-mode dispatch, request         *)
(* builders, result conversion and score-threshold filtering.              *)
(*                                                                         *)
(* Numbers: a float64/float32 score or threshold is an integer of the      *)
(* model (a fixed-point value); only its order and equality matter.        *)
(* A Go pointer is a record [nil, v]; a Go slice of documents is a record  *)
(* [nil, list] so that a nil slice and an empty slice stay distinct.       *)
(***************************************************************************)
EXTENDS Integers, Sequences, FiniteSets, TLC

VARIABLES
    pc,                 \* position of the construction / of the Retrieve call
    config,             \* RetrieverConfig (r.config)
    query,              \* the query text of the running Retrieve call
    opts,               \* the call options of the running Retrieve call
    co,                 \* retriever.Options resolved by Retrieve
    queryVector,        \* dense query vector ([]float32), a slice record
    querySparseVector,  \* sparse query vector (map[int]float64), a slice record
    request,            \* the request built by the search mode
    iter,               \* the engine's search iterator: number of batches fetched
    result,             \* the result set under conversion
    allDocs,            \* retrieveIterator's accumulator
    batches,            \* history: the batches with rows, in arrival order
    found,              \* the documents the branch of Retrieve returned
    docs,               \* the documents of the call (before / after filtering)
    err,                \* the error of the call, "" when nil
    trace,              \* history: the steps of the call and their outcomes
    cancelledAt,        \* history: the number of batch fetches issued when the
                        \* call's context was cancelled, -1 while it is not
    reply,              \* the reply of the embedding provider called last
    calls,              \* the Retrieve calls running concurrently on one
                        \* retriever, each with its own locals
    ix                  \* the indexer's side: the engine's collection, and the
                        \* documents, vectors and ids of the running Store call

vars == <<pc, config, query, opts, co, queryVector, querySparseVector, request,
          iter, result, allDocs, batches, found, docs, err, trace, cancelledAt,
          reply, calls, ix>>

-----------------------------------------------------------------------------
(* Bounds *)

MaxScore == 1       \* scores and thresholds range over 0..MaxScore
MaxRows == 2        \* rows of one result set
MaxDocs == 3        \* documents of a list handed to applyScoreThreshold alone
MaxBatches == 2     \* non-empty batches an iterator delivers before it ends
MaxBatchRows == 2   \* rows of one batch of an iterator
MaxSubRequests == 2 \* sub-requests of a Hybrid mode
MaxDim == 2         \* elements of a vector an embedding provider returns
MaxCalls == 2       \* Retrieve calls running concurrently
MaxStoreDocs == 2   \* documents of one Store call

-----------------------------------------------------------------------------
(* Program constants *)

defaultTopK == 5
defaultSubRequestLimit == 10
defaultCollection == "eino_collection"
defaultVectorField == "vector"
defaultIDField == "id"
defaultContentField == "content"
defaultMetadataField == "metadata"
docMetaDataKeyScore == "_score"

-----------------------------------------------------------------------------
(* Values *)

\* A Go pointer.
NilPtr == [nil |-> TRUE, v |-> 0]
Ptr(x) == [nil |-> FALSE, v |-> x]

\* A dynamically typed Go value (any): its type, and its number or its text.
Absent == [t |-> "absent", n |-> 0, s |-> ""]
F64(x) == [t |-> "float64", n |-> x, s |-> ""]
I64(x) == [t |-> "int64", n |-> x, s |-> ""]
Str(x) == [t |-> "string", n |-> 0, s |-> x]
Bytes(b) == [t |-> "bytes", n |-> b, s |-> ""]
CellErr == [t |-> "error", n |-> 0, s |-> ""]

\* The metadata keys of the model; a map[string]any is a function on them,
\* Absent where the map has no entry.
MetaKeys == {"score", docMetaDataKeyScore, "key", "extra"}
EmptyMeta == [k \in MetaKeys |-> Absent]

\* A []*schema.Document.
NilDocs == [nil |-> TRUE, list |-> <<>>]
Docs(l) == [nil |-> FALSE, list |-> l]

PrependDocs(a, b) ==
    IF a.nil /\ Len(b.list) = 0 THEN a ELSE Docs(b.list \o a.list)

\* append(a, b...): appending nothing to a nil slice leaves it nil.
AppendDocs(a, b) ==
    IF a.nil /\ Len(b.list) = 0 THEN a ELSE Docs(a.list \o b.list)

\* schema.Document.WithScore stores the score under the "_score" key.
WithScore(doc, s) ==
    [doc EXCEPT !.MetaData = [@ EXCEPT ![docMetaDataKeyScore] = F64(s)]]

-----------------------------------------------------------------------------
(* Engine result sets *)

\* The JSON blobs of the model, by number, and what sonic.Unmarshal makes of
\* them into a map[string]any: blob 0 is {}, blob 1 is {"key":"v"}, blob 2
\* is {"score":MaxScore} (a JSON number decodes to float64), blob 3 is
\* {"score":"x"}, blob 4 does not parse, blob 5 is {"_score":0}.
JSONBlobs == 0..5
UnmarshalOK(b) == b # 4
Unmarshal(b) ==
    CASE b = 1 -> [EmptyMeta EXCEPT !["key"] = Str("v")]
      [] b = 5 -> [EmptyMeta EXCEPT ![docMetaDataKeyScore] = F64(0)]
      [] b = 2 -> [EmptyMeta EXCEPT !["score"] = F64(MaxScore)]
      [] b = 3 -> [EmptyMeta EXCEPT !["score"] = Str("x")]
      [] OTHER -> EmptyMeta

\* column.Column: a name and one cell per row.
Column(name, vals) == [name |-> name, vals |-> vals]

\* Column.Get(i): an error past the end of the column.
ColGet(col, i) == IF i + 1 <= Len(col.vals) THEN col.vals[i + 1] ELSE CellErr

\* Column.GetAsString(i): the text of a string cell, the decimal form of an
\* integer cell, an error for every other cell.
GetAsStringOK(val) == val.t \in {"string", "int64"}
GetAsString(val) == IF val.t = "string" THEN val.s ELSE ToString(val.n)

\* fmt.Sprintf("%v", val)
FormatV(val) ==
    CASE val.t = "string" -> val.s
      [] val.t \in {"int64", "float64"} -> ToString(val.n)
      [] val.t = "bytes" -> "[" \o ToString(val.n) \o "]"
      [] OTHER -> "<nil>"

\* ResultSet.GetColumn(name): the first column of that name, nil when none.
HasColumn(rs, name) == \E j \in 1..Len(rs.Fields) : rs.Fields[j].name = name
GetColumn(rs, name) ==
    rs.Fields[CHOOSE j \in 1..Len(rs.Fields) :
                /\ rs.Fields[j].name = name
                /\ \A h \in 1..(j - 1) : rs.Fields[h].name # name]

EmptyResultSet == [ResultCount |-> 0, Scores |-> <<>>, Fields |-> <<>>]

-----------------------------------------------------------------------------
(* Result conversion *)

NewDoc == [ID |-> "", Content |-> "", MetaData |-> EmptyMeta]

\* for k, v := range m { meta[k] = v }
MergeMeta(meta, m) == [k \in MetaKeys |-> IF m[k] # Absent THEN m[k] ELSE meta[k]]

\* One column of one row in defaultDocumentConverter (the switch on field.Name()).
ApplyField(doc, field, i) ==
    LET val == ColGet(field, i) IN
    IF val = CellErr THEN doc
    ELSE CASE field.name = "id" ->
                IF GetAsStringOK(val) THEN [doc EXCEPT !.ID = GetAsString(val)]
                ELSE doc
           [] field.name = defaultContentField ->
                IF GetAsStringOK(val) THEN [doc EXCEPT !.Content = GetAsString(val)]
                ELSE doc
           [] field.name = defaultMetadataField ->
                IF val.t = "bytes" /\ UnmarshalOK(val.n)
                THEN [doc EXCEPT !.MetaData = MergeMeta(@, Unmarshal(val.n))]
                ELSE doc
           [] OTHER ->
                IF field.name \in MetaKeys
                THEN [doc EXCEPT !.MetaData = [@ EXCEPT ![field.name] = val]]
                ELSE doc

RECURSIVE ApplyFields(_, _, _, _)
ApplyFields(doc, fields, j, i) ==
    IF j > Len(fields) THEN doc
    ELSE ApplyFields(ApplyField(doc, fields[j], i), fields, j + 1, i)

ConvertRowFirstClassOnly(rs, i) ==
    LET scored == IF i + 1 <= Len(rs.Scores)
                  THEN WithScore(NewDoc, rs.Scores[i + 1])
                  ELSE NewDoc
    IN ApplyFields(scored, rs.Fields, 1, i)

\* One row of defaultDocumentConverter.
ConvertRow(rs, i) ==
    LET scored == IF i + 1 <= Len(rs.Scores)
                  THEN WithScore([NewDoc EXCEPT !.MetaData =
                                    [@ EXCEPT !["score"] = F64(rs.Scores[i + 1])]],
                                 rs.Scores[i + 1])
                  ELSE NewDoc
    IN ApplyFields(scored, rs.Fields, 1, i)

\* defaultDocumentConverter: one document per row, in row order.
defaultDocumentConverter(rs) ==
    Docs([i \in 1..rs.ResultCount |-> ConvertRow(rs, i - 1)])

\* Retriever.queryResultSetToDocuments' closure getField.
getFieldOK(rs, name, i) ==
    HasColumn(rs, name) /\ ColGet(GetColumn(rs, name), i) # CellErr
getField(rs, name, i) ==
    IF HasColumn(rs, name) THEN ColGet(GetColumn(rs, name), i) ELSE CellErr

QueryRowNoNilCheck(rs, i) ==
    LET content == FormatV(getField(rs, defaultContentField, i))
        metaVal == getField(rs, defaultMetadataField, i)
        meta == IF getFieldOK(rs, defaultMetadataField, i)
                   /\ metaVal.t = "bytes" /\ UnmarshalOK(metaVal.n)
                THEN MergeMeta(EmptyMeta, Unmarshal(metaVal.n))
                ELSE EmptyMeta
    IN [ID |-> FormatV(getField(rs, defaultIDField, i)), Content |-> content,
        MetaData |-> meta]

\* One row of queryResultSetToDocuments that has an id.
QueryRow(rs, i) ==
    LET content == IF getFieldOK(rs, defaultContentField, i)
                   THEN FormatV(getField(rs, defaultContentField, i)) ELSE ""
        metaVal == getField(rs, defaultMetadataField, i)
        meta == IF getFieldOK(rs, defaultMetadataField, i)
                   /\ metaVal.t = "bytes" /\ UnmarshalOK(metaVal.n)
                THEN MergeMeta(EmptyMeta, Unmarshal(metaVal.n))
                ELSE EmptyMeta
    IN [ID |-> FormatV(getField(rs, defaultIDField, i)), Content |-> content,
        MetaData |-> meta]

RECURSIVE QueryRows(_, _)
QueryRows(rs, i) ==
    IF i >= rs.ResultCount THEN <<>>
    ELSE IF ~getFieldOK(rs, defaultIDField, i) THEN QueryRows(rs, i + 1)
    ELSE <<QueryRow(rs, i)>> \o QueryRows(rs, i + 1)

\* Retriever.queryResultSetToDocuments: rows without an id are skipped.
queryResultSetToDocuments(rs) == Docs(QueryRows(rs, 0))

-----------------------------------------------------------------------------
(* Score-threshold filtering *)

KeepDocStrict(doc, t) ==
    doc.MetaData["score"].t = "float64" /\ doc.MetaData["score"].n > t

\* The condition of the loop body: doc.MetaData["score"].(float64) succeeds
\* and the score is not below the threshold.
KeepDoc(doc, t) ==
    doc.MetaData["score"].t = "float64" /\ doc.MetaData["score"].n >= t

RECURSIVE FilterLoop(_, _, _, _)
FilterLoop(list, t, i, filtered) ==
    IF i > Len(list) THEN filtered
    ELSE FilterLoop(list, t, i + 1,
                    IF KeepDoc(list[i], t) THEN Append(filtered, list[i])
                    ELSE filtered)

applyScoreThresholdDropsFirst(d, threshold) ==
    IF threshold.nil THEN d
    ELSE LET kept == FilterLoop(d.list, threshold.v, 1, <<>>)
         IN Docs(IF Len(kept) = 0 THEN kept ELSE Tail(kept))

\* Retriever.applyScoreThreshold
applyScoreThreshold(d, threshold) ==
    IF threshold.nil THEN d
    ELSE Docs(FilterLoop(d.list, threshold.v, 1, <<>>))

-----------------------------------------------------------------------------
(* Numeric conversions *)

\* uint32(k) of an int: the indices of the model lie in 0..2^31-1, where the
\* conversion keeps the value (a negative index would wrap around).
ToUint32(k) == IF k >= 0 THEN k ELSE 2147483647

\* float32(v) of an integer-valued float64 below 2^25: exact below 2^24, and
\* rounded to the nearest float32 (ties to the even mantissa) from there on.
Float32(v) ==
    IF v < 16777216 \/ v % 2 = 0 THEN v
    ELSE IF (v + 1) % 4 = 0 THEN v + 1 ELSE v - 1

\* The reply of an embedding provider to EmbedStrings: an error, or a list
\* of vectors. NoReply stands where no provider was called.
NoReply == [err |-> FALSE, vectors |-> <<>>]
ReplyKind(out) ==
    IF out.err THEN "err" ELSE IF Len(out.vectors) # 1 THEN "shape" ELSE "ok"

embedQueryAnyCount(emb, out) ==
    IF emb = "nil"
    THEN [vector |-> <<>>, err |-> "[Retriever] embedding not provided"]
    ELSE IF out.err
    THEN [vector |-> <<>>, err |-> "[Retriever] failed to embed query"]
    ELSE IF Len(out.vectors) = 0
    THEN [vector |-> <<>>, err |-> "[Retriever] invalid embedding result"]
    ELSE [vector |-> [i \in 1..Len(out.vectors[1]) |-> Float32(out.vectors[1][i])],
          err |-> ""]

\* Retriever.embedQuery(ctx, emb, query), given the provider's reply: the
\* returned vector (empty for nil) and the error ("" for nil).
embedQuery(emb, out) ==
    IF emb = "nil"
    THEN [vector |-> <<>>, err |-> "[Retriever] embedding not provided"]
    ELSE IF out.err
    THEN [vector |-> <<>>, err |-> "[Retriever] failed to embed query"]
    ELSE IF Len(out.vectors) # 1
    THEN [vector |-> <<>>, err |-> "[Retriever] invalid embedding result"]
    ELSE [vector |-> [i \in 1..Len(out.vectors[1]) |-> Float32(out.vectors[1][i])],
          err |-> ""]

\* Retriever.embedSparseQuery(ctx, emb, query), given the provider's reply.
embedSparseQuery(emb, out) ==
    IF emb = "nil"
    THEN [vector |-> {}, err |-> "[Retriever] sparse embedding not provided"]
    ELSE IF out.err
    THEN [vector |-> {}, err |-> "[Retriever] failed to embed sparse query"]
    ELSE IF Len(out.vectors) # 1
    THEN [vector |-> {}, err |-> "[Retriever] invalid sparse embedding result"]
    ELSE [vector |-> out.vectors[1], err |-> ""]

-----------------------------------------------------------------------------
(* Search modes *)

\* MetricType and VectorType
L2 == "L2"
IP == "IP"
DenseVector == "dense"
SparseVector == "sparse"

\* SubRequest of a Hybrid mode.
SubRequest(field, metric, topK, params, vtype) ==
    [VectorField |-> field, MetricType |-> metric, TopK |-> topK,
     SearchParams |-> params, VectorType |-> vtype]

\* A SearchMode value: the implementing type and its fields (the fields of
\* the other types at their zero value). "nil" is the nil interface.
Mode(impl) ==
    [impl |-> impl, MetricType |-> "", Radius |-> 0, RangeFilter |-> NilPtr,
     TopK |-> 0, SubRequests |-> <<>>, BatchSize |-> 0, err |-> FALSE]
NilMode == Mode("nil")

\* NewApproximate
NewApproximate(metricType) ==
    [Mode("Approximate") EXCEPT
        !.MetricType = IF metricType = "" THEN L2 ELSE metricType]

\* NewRange
NewRange(metricType, radius) ==
    [Mode("Range") EXCEPT
        !.MetricType = IF metricType = "" THEN L2 ELSE metricType,
        !.Radius = radius]

\* Range.WithRangeFilter
WithRangeFilter(r, rangeFilter) == [r EXCEPT !.RangeFilter = Ptr(rangeFilter)]

\* NewScalar
NewScalar == Mode("Scalar")

\* NewHybrid
NewHybrid(subRequests) == [Mode("Hybrid") EXCEPT !.SubRequests = subRequests]

\* NewIterator: L2 and a batch size of 100 by default.
NewIterator(metricType, batchSize) ==
    [Mode("Iterator") EXCEPT
        !.MetricType = IF metricType = "" THEN L2 ELSE metricType,
        !.BatchSize = IF batchSize <= 0 THEN 100 ELSE batchSize]

\* The test doubles of the retriever's tests: modes whose builder returns
\* the configured error.
MockMode(impl, e) == [Mode(impl) EXCEPT !.err = e]

\* The type switch of Retrieve: which extended interface the mode implements.
IsQuerySearchMode(sm) == sm.impl \in {"Scalar", "mockQuery"}
IsHybridSearchMode(sm) == sm.impl \in {"Hybrid", "mockHybrid"}
IsIteratorSearchMode(sm) == sm.impl \in {"Iterator", "mockIterator"}

-----------------------------------------------------------------------------
(* Options *)

\* The options of one call: WithTopK, WithScoreThreshold, WithEmbedding
\* (retriever.Option) and WithFilter, WithGrouping (ImplOptions); a nil
\* pointer where the option was not passed.
CallOptions(topK, threshold, embedding, filter, grouping) ==
    [TopK |-> topK, ScoreThreshold |-> threshold, Embedding |-> embedding,
     Filter |-> filter, Grouping |-> grouping]
NoOptions == CallOptions(NilPtr, NilPtr, NilPtr, "", NilPtr)

\* retriever.Options
Options(index, topK, threshold, embedding) ==
    [Index |-> index, TopK |-> topK, ScoreThreshold |-> threshold,
     Embedding |-> embedding]

\* retriever.GetCommonOptions(base, opts...): every passed option overwrites
\* its field of base.
GetCommonOptions(base, o) ==
    [base EXCEPT
        !.TopK = IF o.TopK.nil THEN @ ELSE o.TopK,
        !.ScoreThreshold = IF o.ScoreThreshold.nil THEN @ ELSE o.ScoreThreshold,
        !.Embedding = IF o.Embedding.nil THEN @ ELSE o.Embedding.v]

\* retriever.GetImplSpecificOptions(&ImplOptions{}, opts...)
GetImplSpecificOptions(o) == [Filter |-> o.Filter, Grouping |-> o.Grouping]

\* The base every builder passes: &retriever.Options{TopK: &conf.TopK}.
BuilderOptions(conf, o) ==
    GetCommonOptions(Options(NilPtr, Ptr(conf.TopK), NilPtr, "nil"), o)

-----------------------------------------------------------------------------
(* Requests *)

NoRequest == [kind |-> "none"]

\* map[string]string as a set of <<key, value>>; setting a key replaces it.
SetParam(ps, k, v) == {p \in ps : p[1] # k} \cup {<<k, v>>}

\* milvusclient.NewSearchOption(collection, limit, vectors)
NewSearchOption(collection, limit, vectors) ==
    [kind |-> "search", collection |-> collection, limit |-> limit,
     vectors |-> vectors, annsField |-> "", outputFields |-> <<>>,
     searchParams |-> {}, partitions |-> <<>>, filter |-> "",
     groupByField |-> "", groupSize |-> 0, strictGroupSize |-> FALSE]

\* The tail shared by the builders: partitions, filter, grouping.
WithCallOptions(opt, conf, io) ==
    LET p == IF Len(conf.Partitions) > 0
             THEN [opt EXCEPT !.partitions = conf.Partitions] ELSE opt
        f == IF io.Filter # "" THEN [p EXCEPT !.filter = io.Filter] ELSE p
    IN IF io.Grouping.nil THEN f
       ELSE [f EXCEPT !.groupByField = io.Grouping.v.GroupByField,
                      !.groupSize = io.Grouping.v.GroupSize,
                      !.strictGroupSize = io.Grouping.v.StrictGroupSize]

ApproximateBuildConfigTopK(a, conf, qv, o) ==
    WithCallOptions([NewSearchOption(conf.Collection, conf.TopK, <<qv>>) EXCEPT
                        !.annsField = conf.VectorField,
                        !.outputFields = conf.OutputFields],
                    conf, GetImplSpecificOptions(o))

\* Approximate.BuildSearchOption
ApproximateBuildSearchOption(a, conf, qv, o) ==
    LET io == GetImplSpecificOptions(o)
        c == BuilderOptions(conf, o)
        mk(limit) == [NewSearchOption(conf.Collection, limit, <<qv>>) EXCEPT
                        !.annsField = conf.VectorField,
                        !.outputFields = conf.OutputFields]
        searchOpt == IF ~c.TopK.nil /\ c.TopK.v # conf.TopK
                     THEN mk(c.TopK.v) ELSE mk(conf.TopK)
    IN WithCallOptions(searchOpt, conf, io)

RangeBuildOverrideDropsRangeFilter(r, conf, qv, o) ==
    LET io == GetImplSpecificOptions(o)
        c == BuilderOptions(conf, o)
        base(limit) == [NewSearchOption(conf.Collection, limit, <<qv>>) EXCEPT
                            !.annsField = conf.VectorField,
                            !.outputFields = conf.OutputFields,
                            !.searchParams = {<<"radius", ToString(r.Radius)>>}]
        searchOpt == IF ~c.TopK.nil /\ c.TopK.v # conf.TopK
                     THEN base(c.TopK.v)
                     ELSE IF r.RangeFilter.nil THEN base(conf.TopK)
                     ELSE [base(conf.TopK) EXCEPT !.searchParams =
                              SetParam(@, "range_filter", ToString(r.RangeFilter.v))]
    IN WithCallOptions(searchOpt, conf, io)

\* Range.BuildSearchOption
RangeBuildSearchOption(r, conf, qv, o) ==
    LET io == GetImplSpecificOptions(o)
        c == BuilderOptions(conf, o)
        mk(limit) ==
            LET base == [NewSearchOption(conf.Collection, limit, <<qv>>) EXCEPT
                            !.annsField = conf.VectorField,
                            !.outputFields = conf.OutputFields,
                            !.searchParams = {<<"radius", ToString(r.Radius)>>}]
            IN IF r.RangeFilter.nil THEN base
               ELSE [base EXCEPT !.searchParams =
                        SetParam(@, "range_filter", ToString(r.RangeFilter.v))]
        searchOpt == IF ~c.TopK.nil /\ c.TopK.v # conf.TopK
                     THEN mk(c.TopK.v) ELSE mk(conf.TopK)
    IN WithCallOptions(searchOpt, conf, io)

ScalarBuildQueryOptionNoParens(s, conf, q, o) ==
    LET io == GetImplSpecificOptions(o)
        c == BuilderOptions(conf, o)
        finalTopK == IF ~c.TopK.nil THEN c.TopK.v ELSE conf.TopK
        expr == IF io.Filter # ""
                THEN IF q # "" THEN q \o " and " \o io.Filter ELSE io.Filter
                ELSE q
    IN [kind |-> "query", collection |-> conf.Collection, filter |-> expr,
        outputFields |-> conf.OutputFields, limit |-> finalTopK,
        partitions |-> IF Len(conf.Partitions) > 0 THEN conf.Partitions ELSE <<>>,
        consistencyLevel |-> IF conf.ConsistencyLevel > 0
                             THEN Ptr(conf.ConsistencyLevel) ELSE NilPtr]

\* Scalar.BuildQueryOption
ScalarBuildQueryOption(s, conf, q, o) ==
    LET io == GetImplSpecificOptions(o)
        c == BuilderOptions(conf, o)
        finalTopK == IF ~c.TopK.nil THEN c.TopK.v ELSE conf.TopK
        expr == IF io.Filter # ""
                THEN IF q # ""
                     THEN "(" \o q \o ") and (" \o io.Filter \o ")"
                     ELSE io.Filter
                ELSE q
    IN [kind |-> "query", collection |-> conf.Collection, filter |-> expr,
        outputFields |-> conf.OutputFields, limit |-> finalTopK,
        partitions |-> IF Len(conf.Partitions) > 0 THEN conf.Partitions ELSE <<>>,
        consistencyLevel |-> IF conf.ConsistencyLevel > 0
                             THEN Ptr(conf.ConsistencyLevel) ELSE NilPtr]

SubRequestSkippedDenseOnly(req, qv, qsv) == Len(qv) = 0

\* One sub-request of the loop of Hybrid.BuildHybridSearchOption: skipped
\* when the vector of its kind is empty.
SubRequestSkipped(req, qv, qsv) ==
    IF req.VectorType = SparseVector THEN Cardinality(qsv) = 0 ELSE Len(qv) = 0

RECURSIVE MergeParams(_, _)
MergeParams(ps, from) ==
    IF from = {} THEN ps
    ELSE LET p == CHOOSE q \in from : TRUE
         IN MergeParams(SetParam(ps, p[1], p[2]), from \ {p})

AnnRequest(req, conf, qv, qsv, io) ==
    LET field == IF req.VectorField = "" THEN conf.VectorField ELSE req.VectorField
        limit == IF req.TopK <= 0 THEN defaultSubRequestLimit ELSE req.TopK
        vector == IF req.VectorType = SparseVector
                  THEN [kind |-> SparseVector,
                        data |-> {<<ToUint32(e[1]), Float32(e[2])>> : e \in qsv}]
                  ELSE [kind |-> DenseVector, data |-> qv]
        params == MergeParams({}, req.SearchParams)
        metric == IF req.MetricType # ""
                  THEN SetParam(params, "metric_type", req.MetricType) ELSE params
    IN [field |-> field, limit |-> limit, vector |-> vector,
        searchParams |-> metric,
        filter |-> io.Filter,
        groupByField |-> IF io.Grouping.nil THEN "" ELSE io.Grouping.v.GroupByField,
        groupSize |-> IF io.Grouping.nil THEN 0 ELSE io.Grouping.v.GroupSize,
        strictGroupSize |-> IF io.Grouping.nil THEN FALSE
                            ELSE io.Grouping.v.StrictGroupSize]

RECURSIVE AnnRequests(_, _, _, _, _, _)
AnnRequests(subs, j, conf, qv, qsv, io) ==
    IF j > Len(subs) THEN <<>>
    ELSE IF SubRequestSkipped(subs[j], qv, qsv)
         THEN AnnRequests(subs, j + 1, conf, qv, qsv, io)
         ELSE <<AnnRequest(subs[j], conf, qv, qsv, io)>>
              \o AnnRequests(subs, j + 1, conf, qv, qsv, io)

\* The overall top-K of Hybrid.BuildHybridSearchOption.
HybridFinalTopK(h, conf, c) ==
    LET byMode == IF h.TopK > 0 THEN h.TopK ELSE conf.TopK
    IN IF ~c.TopK.nil THEN c.TopK.v ELSE byMode

\* Hybrid.BuildHybridSearchOption
HybridBuildHybridSearchOption(h, conf, qv, qsv, o) ==
    LET io == GetImplSpecificOptions(o)
        c == BuilderOptions(conf, o)
    IN [kind |-> "hybrid", collection |-> conf.Collection,
        limit |-> HybridFinalTopK(h, conf, c),
        subRequests |-> AnnRequests(h.SubRequests, 1, conf, qv, qsv, io),
        outputFields |-> conf.OutputFields,
        partitions |-> IF Len(conf.Partitions) > 0 THEN conf.Partitions ELSE <<>>]

\* Iterator.BuildSearchIteratorOption: a batch-cursor request.
IteratorBuildSearchIteratorOption(it, conf, qv, o) ==
    LET io == GetImplSpecificOptions(o)
        c == BuilderOptions(conf, o)
    IN [kind |-> "iterator", collection |-> conf.Collection, vector |-> qv,
        batchSize |-> it.BatchSize, annsField |-> conf.VectorField,
        outputFields |-> conf.OutputFields,
        limit |-> IF ~c.TopK.nil THEN c.TopK.v ELSE conf.TopK,
        filter |-> io.Filter,
        partitions |-> IF Len(conf.Partitions) > 0 THEN conf.Partitions ELSE <<>>]

\* Scalar.BuildSearchOption: a nil option and a nil error.
ScalarBuildSearchOption(sc, conf, qv, o) == [opt |-> NoRequest, err |-> ""]

HybridBuildSearchOptionNil(h, conf, qv, o) == [opt |-> NoRequest, err |-> ""]

\* Hybrid.BuildSearchOption: a nil option and an error.
HybridBuildSearchOption(h, conf, qv, o) ==
    [opt |-> NoRequest,
     err |-> "Hybrid search mode requires BuildHybridSearchOption"]

\* Iterator.BuildSearchOption: a nil option and an error naming
\* BuildSearchIteratorOption.
IteratorBuildSearchOption(it, conf, qv, o) ==
    [opt |-> NoRequest,
     err |-> "Iterator search mode requires BuildSearchIteratorOption"]

\* SearchMode.BuildSearchOption, by implementing type.
BuildSearchOption(sm, conf, qv, o) ==
    CASE sm.impl = "Scalar" -> ScalarBuildSearchOption(sm, conf, qv, o)
      [] sm.impl = "Hybrid" -> HybridBuildSearchOption(sm, conf, qv, o)
      [] sm.impl = "Iterator" -> IteratorBuildSearchOption(sm, conf, qv, o)
      [] sm.impl = "Range" ->
            [opt |-> RangeBuildSearchOption(sm, conf, qv, o), err |-> ""]
      [] OTHER ->
            [opt |-> ApproximateBuildSearchOption(sm, conf, qv, o), err |-> ""]

-----------------------------------------------------------------------------
(* Configuration *)

\* ConsistencyLevel: the values of the SDK's entity.ConsistencyLevel.
ConsistencyLevelStrong == 0
ConsistencyLevelSession == 1
ConsistencyLevelBounded == 2
ConsistencyLevelEventually == 3

\* RetrieverConfig. Client and ClientConfig: whether the pointer is set;
\* DocumentConverter: "nil", "default" (defaultDocumentConverter) or "custom"
\* (a caller's converter, which may fail); Embedding, SparseEmbedding: the
\* provider, "nil" when none.
RetrieverConfig(client, topK, threshold, mode, converter, emb, sparse) ==
    [Client |-> client, ClientConfig |-> FALSE, Collection |-> "",
     Partitions |-> <<>>, VectorField |-> "", OutputFields |-> <<>>,
     TopK |-> topK, ScoreThreshold |-> threshold, ConsistencyLevel |-> 0,
     SearchMode |-> mode, DocumentConverter |-> converter,
     Embedding |-> emb, SparseEmbedding |-> sparse]

validateErrAnyProvider(c) ==
    IF ~c.Client /\ ~c.ClientConfig
    THEN "[NewRetriever] milvus client or client config not provided"
    ELSE IF c.SearchMode = NilMode
    THEN "[NewRetriever] search mode not provided"
    ELSE IF c.Embedding = "nil" /\ c.SparseEmbedding = "nil"
            /\ ~IsQuerySearchMode(c.SearchMode)
    THEN "[NewRetriever] embedding not provided"
    ELSE ""

\* RetrieverConfig.validate: the error, "" when the config is accepted.
validateErr(c) ==
    IF ~c.Client /\ ~c.ClientConfig
    THEN "[NewRetriever] milvus client or client config not provided"
    ELSE IF c.SearchMode = NilMode
    THEN "[NewRetriever] search mode not provided"
    ELSE IF c.Embedding = "nil" /\ ~IsQuerySearchMode(c.SearchMode)
    THEN "[NewRetriever] embedding not provided"
    ELSE ""

validateDefaultsAlways(c) ==
    [c EXCEPT
        !.Collection = defaultCollection,
        !.VectorField = defaultVectorField,
        !.TopK = defaultTopK,
        !.DocumentConverter = "default"]

\* RetrieverConfig.validate: the defaults it fills in.
validate(c) ==
    [c EXCEPT
        !.Collection = IF @ = "" THEN defaultCollection ELSE @,
        !.VectorField = IF @ = "" THEN defaultVectorField ELSE @,
        !.TopK = IF @ <= 0 THEN defaultTopK ELSE @,
        !.DocumentConverter = IF @ = "nil" THEN "default" ELSE @]

-----------------------------------------------------------------------------
(* The indexer *)

\* The collection on the engine: whether it exists and with which vector
\* fields, whether it is loaded, and how many indexes it has.
Collection(exists, fields, indexes, loaded) ==
    [exists |-> exists, fields |-> fields, indexes |-> indexes, loaded |-> loaded]

\* []string of ids.
NilIDs == [nil |-> TRUE, list |-> <<>>]
IDs(l) == [nil |-> FALSE, list |-> l]

\* The indexer's side where no indexer is built.
NoIndexer ==
    [engine |-> Collection(FALSE, {}, 0, FALSE), docs |-> <<>>, vectors |-> <<>>,
     inserted |-> <<>>, ids |-> NilIDs]

\* IndexerConfig
IndexerConfig(client, clientConfig, dimension, field, sparseField, emb, conv) ==
    [Client |-> client, ClientConfig |-> clientConfig, Collection |-> "",
     Description |-> "", Dimension |-> dimension, PartitionName |-> "",
     ConsistencyLevel |-> 0, MetricType |-> "", VectorField |-> field,
     SparseVectorField |-> sparseField, DocumentConverter |-> conv,
     Embedding |-> emb]

\* The defaults IndexerConfig documents for Description and ConsistencyLevel.
defaultDescription == "the collection for eino"
defaultConsistencyLevel == ConsistencyLevelBounded

\* IndexerConfig.validate: the error, "" when the config is accepted.
indexerValidateErr(c) ==
    IF ~c.Client /\ ~c.ClientConfig
    THEN "[NewIndexer] milvus client or client config not provided"
    ELSE ""

indexerValidateDenseAlways(c) ==
    [c EXCEPT
        !.Collection = IF @ = "" THEN defaultCollection ELSE @,
        !.Description = IF @ = "" THEN defaultDescription ELSE @,
        !.ConsistencyLevel = IF @ <= 0 \/ @ > 5 THEN defaultConsistencyLevel ELSE @,
        !.MetricType = IF @ = "" THEN L2 ELSE @,
        !.VectorField = IF @ = "" THEN defaultVectorField ELSE @,
        !.DocumentConverter = IF @ = "nil" THEN "default" ELSE @]

\* IndexerConfig.validate: the defaults it fills in; the vector field gets
\* its default only with a dense dimension or without a sparse field.
indexerValidate(c) ==
    [c EXCEPT
        !.Collection = IF @ = "" THEN defaultCollection ELSE @,
        !.Description = IF @ = "" THEN defaultDescription ELSE @,
        !.ConsistencyLevel = IF @ <= 0 \/ @ > 5 THEN defaultConsistencyLevel ELSE @,
        !.MetricType = IF @ = "" THEN L2 ELSE @,
        !.VectorField = IF @ = "" /\ (c.Dimension > 0 \/ c.SparseVectorField = "")
                        THEN defaultVectorField ELSE @,
        !.DocumentConverter = IF @ = "nil" THEN "default" ELSE @]

\* The vector fields of the schema createCollection builds.
SchemaFields(conf) ==
    (IF conf.VectorField # "" THEN {conf.VectorField} ELSE {})
    \cup (IF conf.SparseVectorField # "" THEN {conf.SparseVectorField} ELSE {})

\* A document handed to Store: its id, and whether it carries a dense
\* vector of its own.
StoreDoc(id, hasVector) == [ID |-> id, hasVector |-> hasVector]

\* The indexer's defaultDocumentConverter: the error, "" when every
\* document has a vector, from the embedder or of its own.
indexerConvertErr(ds, vs) ==
    IF \E i \in 1..Len(ds) :
          IF Len(vs) = Len(ds) THEN Len(vs[i]) = 0
          ELSE ~ds[i].hasVector
    THEN "vector data missing for document"
    ELSE ""

-----------------------------------------------------------------------------
(* Inputs *)

Seqs(S, n) == UNION {[1..m -> S] : m \in 0..n}

\* Hybrid modes: every sequence of dense and sparse sub-requests, and a
\* mode-level TopK on the modes of at most one sub-request.
SubRequestInputs ==
    {SubRequest("", L2, 0, {}, DenseVector),
     SubRequest("sparse_vector", "", 0, {}, SparseVector)}
HybridInputs ==
    {NewHybrid(subs) : subs \in Seqs(SubRequestInputs, MaxSubRequests)}
    \cup {[NewHybrid(subs) EXCEPT !.TopK = 2] : subs \in Seqs(SubRequestInputs, 1)}

ModeInputs ==
    {NilMode, NewApproximate(""), NewRange("", 1), NewScalar, NewIterator("", 0),
     MockMode("mockQuery", TRUE), MockMode("mockHybrid", TRUE),
     MockMode("mockIterator", TRUE)} \cup HybridInputs

ThresholdInputs == {NilPtr} \cup {Ptr(t) : t \in 1..MaxScore}

\* A sparse provider is configured with Hybrid modes only.
ConfigInputs ==
    {c \in {RetrieverConfig(client, topK, th, mode, conv, emb, sparse) :
                client \in BOOLEAN, topK \in {0, 3}, th \in ThresholdInputs,
                mode \in ModeInputs,
                conv \in {"nil", "custom"}, emb \in {"nil", "emb"},
                sparse \in {"nil", "sparse"}} :
        c.SparseEmbedding # "nil" => IsHybridSearchMode(c.SearchMode)}

CallOptionInputs ==
    {CallOptions(topK, NilPtr, NilPtr, "", NilPtr) : topK \in {NilPtr, Ptr(1), Ptr(3)}}

QueryInputs == {"id > 0"}

\* What an embedding provider may return for the one query text: an error,
\* or any number of vectors. A vector without entries is an input of the
\* Hybrid modes, the only ones to look at a vector's length.
DenseVectors == {<<>>, <<1, 16777217>>}
SparseVectors == {{}, {<<1, 5>>}}
DenseOutcomes(sm) ==
    LET vectors == IF IsHybridSearchMode(sm) THEN DenseVectors
                   ELSE DenseVectors \ {<<>>}
    IN {[err |-> TRUE, vectors |-> <<>>]}
       \cup {[err |-> FALSE, vectors |-> vs] :
               vs \in {<<>>} \cup {<<v>> : v \in vectors}
                      \cup {<<v, v>> : v \in vectors}}
SparseOutcomes ==
    {[err |-> TRUE, vectors |-> <<>>]}
    \cup {[err |-> FALSE, vectors |-> vs] :
            vs \in {<<>>} \cup {<<v>> : v \in SparseVectors}
                   \cup {<<v, v>> : v \in SparseVectors}}

\* Result sets as the tests build them (createMockResultSet): an id, a
\* content and a metadata column, and a score per row or no scores at all.
MkResultSet(n, scores, metas) ==
    [ResultCount |-> n, Scores |-> scores,
     Fields |-> <<Column("id", [i \in 1..n |-> Str(ToString(i))]),
                  Column(defaultContentField, [i \in 1..n |-> Str("doc")]),
                  Column(defaultMetadataField, [i \in 1..n |-> Bytes(metas[i])])>>]

BlobInputs == {0, 3}

\* The rows of a search result: a score with empty metadata, or the top score
\* with metadata that carries a "score" entry of its own.
RowInputs == {<<s, 0>> : s \in 0..MaxScore} \cup {<<MaxScore, 3>>}

\* A query result carries no scores.
QueryResultSets ==
    UNION {{MkResultSet(n, <<>>, metas) : metas \in [1..n -> BlobInputs]} :
            n \in 0..MaxRows}
SearchResultSets ==
    QueryResultSets
    \cup UNION {{MkResultSet(n, [i \in 1..n |-> rows[i][1]],
                                [i \in 1..n |-> rows[i][2]]) :
                    rows \in [1..n -> RowInputs]} : n \in 0..MaxRows}

\* The batches of an iterator: the engine delivers the rows by score, best
\* first, within a batch and from one batch to the next.
IteratorBatches ==
    UNION {{MkResultSet(n, scores, [i \in 1..n |-> 0]) :
                scores \in {f \in [1..n -> 0..MaxScore] :
                              \A i \in 1..(n - 1) : f[i] >= f[i + 1]}} :
            n \in 0..MaxBatchRows}

\* The errors of the engine's iterator: the end-of-results sentinel and others.
EngineErrors == {"EOF", "unexpected EOF", "rpc error"}

-----------------------------------------------------------------------------
(* The retriever: construction and the steps of one Retrieve call *)

Idle ==
    /\ query = ""
    /\ opts = NoOptions
    /\ co = Options(NilPtr, NilPtr, NilPtr, "nil")
    /\ queryVector = <<>>
    /\ querySparseVector = {}
    /\ request = NoRequest
    /\ iter = 0
    /\ result = EmptyResultSet
    /\ allDocs = NilDocs
    /\ batches = <<>>
    /\ found = NilDocs
    /\ docs = NilDocs
    /\ err = ""
    /\ trace = <<>>
    /\ cancelledAt = -1
    /\ reply = NoReply
    /\ calls = <<>>
    /\ ix = NoIndexer

Init ==
    /\ pc = "new"
    /\ config \in ConfigInputs
    /\ Idle

\* One step of the call: the operation and how it ended.
Ev(op, out) == [op |-> op, out |-> out]

FailPartial(msg) ==
    /\ pc' = "done"
    /\ docs' = allDocs
    /\ err' = msg

\* Retrieve's "if err != nil { return nil, err }".
Fail(msg) ==
    /\ pc' = "done"
    /\ docs' = NilDocs
    /\ err' = msg

\* NewRetriever: validate, then check (and load) the collection.
NewRetriever ==
    /\ pc = "new"
    /\ \E newClient \in {"ok", "err"}, has \in {"err", "absent", "present"},
          state \in {"err", "loaded", "notloaded"},
          load \in {"ok", "err", "awaitErr"} :
          LET e == IF validateErr(config) # "" THEN validateErr(config)
                   ELSE IF ~config.Client /\ newClient = "err"
                   THEN "[NewRetriever] failed to create milvus client"
                   ELSE IF has = "err"
                   THEN "[NewRetriever] failed to check collection"
                   ELSE IF has = "absent"
                   THEN "[NewRetriever] collection not found"
                   ELSE IF state = "err"
                   THEN "[NewRetriever] failed to get load state"
                   ELSE IF state = "notloaded" /\ load = "err"
                   THEN "[NewRetriever] failed to load collection"
                   ELSE IF state = "notloaded" /\ load = "awaitErr"
                   THEN "[NewRetriever] failed to await collection load"
                   ELSE ""
          IN /\ config' = IF validateErr(config) = "" THEN validate(config)
                          ELSE config
             /\ err' = e
             /\ pc' = IF e = "" THEN "idle" ELSE "rejected"
    /\ UNCHANGED <<ix, calls, reply, cancelledAt, query, opts, co, queryVector, querySparseVector, request,
                   iter, result, allDocs, batches, found, docs, trace>>

FirstStepEmbedAlways(conf) == "embedDense"

\* The type switch of Retrieve and the first statement of the branch taken.
FirstStep(conf) ==
    IF IsQuerySearchMode(conf.SearchMode) THEN "build"
    ELSE IF IsHybridSearchMode(conf.SearchMode)
    THEN IF conf.Embedding # "nil" THEN "embedDense"
         ELSE IF conf.SparseEmbedding # "nil" THEN "embedSparse"
         ELSE "build"
    ELSE "embedDense"

\* Retrieve, up to the type switch on the search mode.
Retrieve ==
    /\ pc = "idle"
    /\ \E q \in QueryInputs, o \in CallOptionInputs :
          /\ query' = q
          /\ opts' = o
          /\ co' = GetCommonOptions(
                      Options(Ptr(config.VectorField), Ptr(config.TopK),
                              config.ScoreThreshold, config.Embedding), o)
    /\ pc' = FirstStep(config)
    /\ UNCHANGED <<ix, calls, reply, cancelledAt, config, queryVector, querySparseVector, request, iter,
                   result, allDocs, batches, found, docs, err, trace>>

\* Retriever.embedQuery, called by retrieveHybrid, retrieveIterator and
\* retrieveStandard; the provider is called only when there is one.
EmbedDense ==
    /\ pc = "embedDense"
    /\ \E out \in IF co.Embedding = "nil" THEN {NoReply}
                   ELSE DenseOutcomes(config.SearchMode) :
          LET ret == embedQuery(co.Embedding, out) IN
          /\ reply' = out
          /\ trace' = IF co.Embedding = "nil" THEN trace
                      ELSE Append(trace, Ev("EmbedStrings", ReplyKind(out)))
          /\ IF ret.err # ""
             THEN /\ Fail(ret.err)
                  /\ UNCHANGED queryVector
             ELSE /\ queryVector' = ret.vector
                  /\ pc' = IF IsHybridSearchMode(config.SearchMode)
                              /\ config.SparseEmbedding # "nil"
                           THEN "embedSparse" ELSE "build"
                  /\ UNCHANGED <<docs, err>>
    /\ UNCHANGED <<ix, calls, cancelledAt, config, query, opts, co, querySparseVector, request, iter,
                   result, allDocs, batches, found>>

\* Retriever.embedSparseQuery, called by retrieveHybrid.
EmbedSparse ==
    /\ pc = "embedSparse"
    /\ \E out \in IF config.SparseEmbedding = "nil" THEN {NoReply}
                   ELSE SparseOutcomes :
          LET ret == embedSparseQuery(config.SparseEmbedding, out) IN
          /\ reply' = out
          /\ trace' = IF config.SparseEmbedding = "nil" THEN trace
                      ELSE Append(trace, Ev("SparseEmbedStrings", ReplyKind(out)))
          /\ IF ret.err # ""
             THEN /\ Fail(ret.err)
                  /\ UNCHANGED querySparseVector
             ELSE /\ querySparseVector' = ret.vector
                  /\ pc' = "build"
                  /\ UNCHANGED <<docs, err>>
    /\ UNCHANGED <<ix, calls, cancelledAt, config, query, opts, co, queryVector, request, iter,
                   result, allDocs, batches, found>>

\* The builder call of each branch of Retrieve.
BuildRequest(sm) ==
    CASE sm.impl = "Scalar" -> ScalarBuildQueryOption(sm, config, query, opts)
      [] sm.impl = "Hybrid" ->
            HybridBuildHybridSearchOption(sm, config, queryVector,
                                          querySparseVector, opts)
      [] sm.impl = "Iterator" ->
            IteratorBuildSearchIteratorOption(sm, config, queryVector, opts)
      [] sm.impl = "Range" -> RangeBuildSearchOption(sm, config, queryVector, opts)
      [] OTHER -> ApproximateBuildSearchOption(sm, config, queryVector, opts)

Build ==
    /\ pc = "build"
    /\ trace' = Append(trace, Ev("Build", IF config.SearchMode.err THEN "err"
                                          ELSE "ok"))
    /\ IF config.SearchMode.err
       THEN /\ Fail("[Retriever] failed to build option")
            /\ UNCHANGED request
       ELSE /\ request' = BuildRequest(config.SearchMode)
            /\ pc' = "execute"
            /\ UNCHANGED <<docs, err>>
    /\ UNCHANGED <<ix, calls, reply, cancelledAt, config, query, opts, co, queryVector, querySparseVector,
                   iter, result, allDocs, batches, found>>

\* retrieveQuery: client.Query
ExecQuery ==
    /\ pc = "execute"
    /\ request.kind = "query"
    /\ \/ /\ Fail("[Retriever] failed to execute query")
          /\ trace' = Append(trace, Ev("Query", "err"))
          /\ UNCHANGED result
       \/ \E rs \in QueryResultSets :
             /\ trace' = Append(trace, Ev("Query", "ok"))
             /\ result' = rs
             /\ pc' = "convert"
             /\ UNCHANGED <<docs, err>>
    /\ UNCHANGED <<ix, calls, reply, cancelledAt, config, query, opts, co, queryVector, querySparseVector,
                   request, iter, allDocs, batches, found>>

TakeFirstNil(results) ==
    IF Len(results) = 0
    THEN /\ found' = NilDocs
         /\ pc' = "filter"
         /\ UNCHANGED result
    ELSE /\ result' = results[1]
         /\ pc' = "convert"
         /\ UNCHANGED found

\* What retrieveHybrid and retrieveStandard do with the engine's answer.
TakeFirst(results) ==
    IF Len(results) = 0
    THEN /\ found' = Docs(<<>>)
         /\ pc' = "filter"
         /\ UNCHANGED result
    ELSE /\ result' = results[1]
         /\ pc' = "convert"
         /\ UNCHANGED found

\* retrieveHybrid: client.HybridSearch
ExecHybridSearch ==
    /\ pc = "execute"
    /\ request.kind = "hybrid"
    /\ \/ /\ Fail("[Retriever] hybrid search failed")
          /\ trace' = Append(trace, Ev("HybridSearch", "err"))
          /\ UNCHANGED <<result, found>>
       \/ \E results \in {<<>>} \cup {<<rs>> : rs \in SearchResultSets} :
             /\ trace' = Append(trace, Ev("HybridSearch", "ok"))
             /\ TakeFirst(results)
             /\ UNCHANGED <<docs, err>>
    /\ UNCHANGED <<ix, calls, reply, cancelledAt, config, query, opts, co, queryVector, querySparseVector,
                   request, iter, allDocs, batches>>

\* retrieveStandard: client.Search
ExecSearch ==
    /\ pc = "execute"
    /\ request.kind = "search"
    /\ \/ /\ Fail("[Retriever] search failed")
          /\ trace' = Append(trace, Ev("Search", "err"))
          /\ UNCHANGED <<result, found>>
       \/ \E results \in {<<>>} \cup {<<rs>> : rs \in SearchResultSets} :
             /\ trace' = Append(trace, Ev("Search", "ok"))
             /\ TakeFirst(results)
             /\ UNCHANGED <<docs, err>>
    /\ UNCHANGED <<ix, calls, reply, cancelledAt, config, query, opts, co, queryVector, querySparseVector,
                   request, iter, allDocs, batches>>

\* retrieveIterator: client.SearchIterator
OpenSearchIterator ==
    /\ pc = "execute"
    /\ request.kind = "iterator"
    /\ \/ /\ Fail("[Retriever] failed to create search iterator")
          /\ trace' = Append(trace, Ev("SearchIterator", "err"))
       \/ /\ trace' = Append(trace, Ev("SearchIterator", "ok"))
          /\ pc' = "next"
          /\ UNCHANGED <<docs, err>>
    /\ UNCHANGED <<ix, calls, reply, cancelledAt, config, query, opts, co, queryVector, querySparseVector,
                   request, iter, result, allDocs, batches, found>>

EndOfResultsNever(e) == FALSE

\* retrieveIterator: err.Error() == "EOF", the end-of-results signal.
EndOfResults(e) == e = "EOF"

\* retrieveIterator: iterator.Next and the two exits of the loop. The
\* engine delivers at most MaxBatches batches with rows, best scores first.
IteratorNext ==
    /\ pc = "next"
    /\ \/ \E e \in EngineErrors :
             IF EndOfResults(e)
             THEN /\ trace' = Append(trace, Ev("Next", e))
                  /\ found' = allDocs
                  /\ pc' = "filter"
                  /\ UNCHANGED <<iter, result, batches, docs, err>>
             ELSE /\ trace' = Append(trace, Ev("Next", e))
                  /\ Fail("[Retriever] iterator next failed")
                  /\ UNCHANGED <<iter, result, batches, found>>
       \/ \E res \in IteratorBatches :
             /\ res.ResultCount > 0 => iter < MaxBatches
             /\ (res.ResultCount > 0 /\ Len(batches) > 0) =>
                    LET last == batches[Len(batches)]
                    IN last.Scores[Len(last.Scores)] >= res.Scores[1]
             /\ IF res.ResultCount = 0
                THEN /\ trace' = Append(trace, Ev("Next", "empty"))
                     /\ found' = allDocs
                     /\ pc' = "filter"
                     /\ UNCHANGED <<iter, result, batches>>
                ELSE /\ trace' = Append(trace, Ev("Next", "rows"))
                     /\ result' = res
                     /\ batches' = Append(batches, res)
                     /\ iter' = iter + 1
                     /\ pc' = "convertBatch"
                     /\ UNCHANGED found
             /\ UNCHANGED <<docs, err>>
    /\ UNCHANGED <<ix, calls, reply, cancelledAt, config, query, opts, co, queryVector, querySparseVector,
                   request, allDocs>>

\* r.config.DocumentConverter: the default converter, or a caller's, which
\* converts as the default does or fails.
ConverterOutcomes(rs) ==
    {[err |-> FALSE, docs |-> defaultDocumentConverter(rs)]}
    \cup IF config.DocumentConverter = "custom"
         THEN {[err |-> TRUE, docs |-> NilDocs]} ELSE {}

\* The conversion of the one result set of retrieveQuery, retrieveHybrid and
\* retrieveStandard.
Convert ==
    /\ pc = "convert"
    /\ IF request.kind = "query"
       THEN /\ trace' = Append(trace, Ev("Convert", "ok"))
            /\ found' = queryResultSetToDocuments(result)
            /\ pc' = "filter"
            /\ UNCHANGED <<docs, err>>
       ELSE \E out \in ConverterOutcomes(result) :
            /\ trace' = Append(trace, Ev("Convert", IF out.err THEN "err" ELSE "ok"))
            /\ IF out.err
               THEN /\ Fail("converter failed")
                    /\ UNCHANGED found
               ELSE /\ found' = out.docs
                    /\ pc' = "filter"
                    /\ UNCHANGED <<docs, err>>
    /\ UNCHANGED <<ix, calls, reply, cancelledAt, config, query, opts, co, queryVector, querySparseVector,
                   request, iter, result, allDocs, batches>>

\* retrieveIterator: the conversion of one batch and the append.
ConvertBatch ==
    /\ pc = "convertBatch"
    /\ \E out \in ConverterOutcomes(result) :
          /\ trace' = Append(trace, Ev("Convert", IF out.err THEN "err" ELSE "ok"))
          /\ IF out.err
             THEN /\ Fail("[Retriever] failed to convert batch results")
                  /\ UNCHANGED allDocs
             ELSE /\ allDocs' = AppendDocs(allDocs, out.docs)
                  /\ pc' = "next"
                  /\ UNCHANGED <<docs, err>>
    /\ UNCHANGED <<ix, calls, reply, cancelledAt, config, query, opts, co, queryVector, querySparseVector,
                   request, iter, result, batches, found>>

\* The caller cancels the context of the call while retrieveIterator is in
\* its loop. The loop reads the context nowhere: it hands it to
\* iterator.Next and the converter.
Cancel ==
    /\ pc \in {"next", "convertBatch"}
    /\ cancelledAt = -1
    /\ UNCHANGED <<ix, calls, reply>>
    /\ cancelledAt' = Cardinality({i \in 1..Len(trace) : trace[i].op = "Next"})
    /\ UNCHANGED <<pc, config, query, opts, co, queryVector, querySparseVector,
                   request, iter, result, allDocs, batches, found, docs, err,
                   trace>>

\* The tail of Retrieve: applyScoreThreshold and the return.
ApplyThresholdSearchOnly ==
    /\ pc = "filter"
    /\ trace' = Append(trace, Ev("Filter", "ok"))
    /\ docs' = IF request.kind = "query" THEN found
               ELSE applyScoreThreshold(found, co.ScoreThreshold)
    /\ pc' = "done"
    /\ UNCHANGED <<ix, calls, reply, cancelledAt, config, query, opts, co, queryVector, querySparseVector,
                   request, iter, result, allDocs, batches, found, err>>

ApplyThreshold ==
    /\ pc = "filter"
    /\ trace' = Append(trace, Ev("Filter", "ok"))
    /\ docs' = applyScoreThreshold(found, co.ScoreThreshold)
    /\ pc' = "done"
    /\ UNCHANGED <<ix, calls, reply, cancelledAt, config, query, opts, co, queryVector, querySparseVector,
                   request, iter, result, allDocs, batches, found, err>>

Next ==
    \/ NewRetriever
    \/ Retrieve
    \/ EmbedDense
    \/ EmbedSparse
    \/ Build
    \/ ExecQuery
    \/ ExecHybridSearch
    \/ ExecSearch
    \/ OpenSearchIterator
    \/ IteratorNext
    \/ ConvertBatch
    \/ Convert
    \/ ApplyThreshold

Spec == Init /\ [][Next]_vars

\* Retrieval in Iterator mode alone, with the engine's and the scheduler's
\* progress: every call that can take a step eventually takes it.
IteratorInit == Init /\ IsIteratorSearchMode(config.SearchMode)

IteratorModeNext ==
    \/ NewRetriever
    \/ Retrieve
    \/ EmbedDense
    \/ Build
    \/ OpenSearchIterator
    \/ IteratorNext
    \/ ConvertBatch
    \/ ApplyThreshold

IteratorSpec ==
    IteratorInit /\ [][IteratorModeNext]_vars /\ WF_vars(IteratorModeNext)

\* Retrieval in Iterator mode with a caller that may cancel the context of
\* the call during the iteration.
CancelNext == IteratorModeNext \/ Cancel

CancelSpec == IteratorInit /\ [][CancelNext]_vars

\* The builders of the search modes called directly, as a caller of the
\* search_mode package (and its tests) calls them, on a config that names
\* its collection, field, partitions and consistency level.
BuilderModeInputs ==
    {NewApproximate(""), NewApproximate(IP), NewRange("", 1),
     WithRangeFilter(NewRange(IP, 1), 0), NewScalar,
     NewHybrid(<<SubRequest("", L2, 0, {}, DenseVector)>>), NewIterator("", 0)}
BuilderConfigInputs ==
    {[RetrieverConfig(TRUE, 10, NilPtr, mode, "nil", "emb", "nil") EXCEPT
            !.Collection = "test_collection", !.VectorField = "vector",
            !.OutputFields = <<"id", "content">>,
            !.Partitions = partitions, !.ConsistencyLevel = level] :
        mode \in BuilderModeInputs,
        partitions \in {<<>>, <<"partition1", "partition2">>},
        level \in {ConsistencyLevelStrong, ConsistencyLevelSession,
                   ConsistencyLevelBounded, ConsistencyLevelEventually}}
BuilderOptionInputs ==
    {CallOptions(topK, NilPtr, NilPtr, filter, grouping) :
        topK \in {NilPtr, Ptr(50)}, filter \in {"", "category == 'A'"},
        grouping \in {NilPtr, Ptr([GroupByField |-> "category", GroupSize |-> 2,
                                   StrictGroupSize |-> TRUE])}}

BuilderInit ==
    /\ pc = "builder"
    /\ config \in BuilderConfigInputs
    /\ query \in {"", "id > 10"}
    /\ opts \in BuilderOptionInputs
    /\ co = Options(NilPtr, NilPtr, NilPtr, "nil")
    /\ queryVector = <<1, 2, 3>>
    /\ querySparseVector = {}
    /\ request = NoRequest
    /\ iter = 0
    /\ result = EmptyResultSet
    /\ allDocs = NilDocs
    /\ batches = <<>>
    /\ found = NilDocs
    /\ docs = NilDocs
    /\ err = ""
    /\ trace = <<>>
    /\ cancelledAt = -1
    /\ reply = NoReply
    /\ calls = <<>>
    /\ ix = NoIndexer

\* mode.BuildSearchOption(ctx, conf, queryVector, opts...)
CallBuildSearchOption ==
    /\ pc = "builder"
    /\ LET built == BuildSearchOption(config.SearchMode, config, queryVector, opts)
       IN /\ request' = built.opt
          /\ err' = built.err
          /\ trace' = Append(trace, Ev("BuildSearchOption",
                                       IF built.err = "" THEN "ok" ELSE "err"))
    /\ pc' = "built"
    /\ UNCHANGED <<ix, calls, reply, cancelledAt, config, query, opts, co, queryVector,
                   querySparseVector, iter, result, allDocs, batches, found, docs>>

\* The builder a mode has beside BuildSearchOption.
SpecialisedBuilder(sm) ==
    CASE sm.impl = "Scalar" -> "BuildQueryOption"
      [] sm.impl = "Hybrid" -> "BuildHybridSearchOption"
      [] sm.impl = "Iterator" -> "BuildSearchIteratorOption"
      [] OTHER -> ""

\* mode.BuildQueryOption, mode.BuildHybridSearchOption or
\* mode.BuildSearchIteratorOption, for the modes that have one.
CallSpecialisedBuilder ==
    /\ pc = "builder"
    /\ SpecialisedBuilder(config.SearchMode) # ""
    /\ request' = BuildRequest(config.SearchMode)
    /\ trace' = Append(trace, Ev(SpecialisedBuilder(config.SearchMode), "ok"))
    /\ pc' = "built"
    /\ UNCHANGED <<ix, calls, reply, cancelledAt, config, query, opts, co, queryVector,
                   querySparseVector, iter, result, allDocs, batches, found, docs,
                   err>>

BuilderNext == CallBuildSearchOption \/ CallSpecialisedBuilder

BuilderSpec == BuilderInit /\ [][BuilderNext]_vars

\* The conversion alone, on result sets whose id, content and metadata
\* columns may be missing, short (a cell past the end is unreadable) or of
\* another type, with or without a dynamic column and scores; the blobs of
\* the rows are alike, or alternate between {"score":MaxScore} and {"key":"v"}.
Cells(n, c) == {[i \in 1..k |-> c] : k \in {m \in {n - 1, n} : m >= 0}}
IdColumns(n) ==
    {<<>>} \cup {<<Column(defaultIDField, vals)>> :
                    vals \in Cells(n, Str("a")) \cup Cells(n, I64(7))}
ContentColumns(n) ==
    {<<>>} \cup {<<Column(defaultContentField, vals)>> :
                    vals \in Cells(n, Str("text")) \cup {[i \in 1..n |-> F64(1)]}}
MetadataColumns(n) ==
    {<<>>} \cup {<<Column(defaultMetadataField, [i \in 1..n |-> c])>> :
                    c \in {Str("{}")} \cup {Bytes(b) : b \in JSONBlobs}}
           \cup {<<Column(defaultMetadataField,
                          [i \in 1..n |-> Bytes(IF i % 2 = 1 THEN 2 ELSE 1)])>>}
DynamicColumns(n) ==
    {<<>>, <<Column("extra", [i \in 1..n |-> I64(7)])>>,
     <<Column("score", [i \in 1..n |-> Str("high")])>>}
ScoreInputsOf(n) == {<<>>} \cup {[i \in 1..n |-> s] : s \in 0..MaxScore}
ConverterResultSets ==
    UNION {{[ResultCount |-> n, Scores |-> scores,
             Fields |-> ids \o contents \o metas \o dyn] :
                ids \in IdColumns(n), contents \in ContentColumns(n),
                metas \in MetadataColumns(n), dyn \in DynamicColumns(n),
                scores \in ScoreInputsOf(n)} : n \in 1..MaxRows}

ConverterInit ==
    /\ pc = "convert"
    /\ config \in {validate(RetrieverConfig(TRUE, 0, NilPtr, mode, "nil", "emb", "nil")) :
                      mode \in {NewScalar, NewApproximate("")}}
    /\ \E threshold \in {NilPtr, Ptr(MaxScore)} :
          co = Options(Ptr(defaultVectorField), Ptr(defaultTopK), threshold, "emb")
    /\ query = "id > 0"
    /\ opts = NoOptions
    /\ queryVector = <<1>>
    /\ querySparseVector = {}
    /\ request = BuildRequest(config.SearchMode)
    /\ iter = 0
    /\ result \in ConverterResultSets
    /\ request.kind = "query" => result.Scores = <<>>
    /\ allDocs = NilDocs
    /\ batches = <<>>
    /\ found = NilDocs
    /\ docs = NilDocs
    /\ err = ""
    /\ trace = <<>>
    /\ cancelledAt = -1
    /\ reply = NoReply
    /\ calls = <<>>
    /\ ix = NoIndexer

ConverterNext == Convert \/ ApplyThreshold

ConverterSpec == ConverterInit /\ [][ConverterNext]_vars

\* embedQuery and embedSparseQuery called directly on a Retriever with an
\* empty config, as TestRetriever_embedQuery calls them: the provider is
\* nil or replies with an error or with up to two vectors of up to MaxDim
\* elements, some of them not representable in float32.
EmbedVectors == UNION {[1..d -> {1, 16777217}] : d \in 0..MaxDim}
EmbedReplies ==
    {[err |-> TRUE, vectors |-> <<>>]}
    \cup {[err |-> FALSE, vectors |-> vs] : vs \in Seqs(EmbedVectors, 2)}

EmbedInit ==
    /\ pc = "embed"
    /\ \E emb \in {"nil", "emb"}, sparse \in {"nil", "sparse"} :
          /\ config = RetrieverConfig(FALSE, 0, NilPtr, NilMode, "nil", emb, sparse)
          /\ co = Options(NilPtr, NilPtr, NilPtr, emb)
    /\ query = "test query"
    /\ opts = NoOptions
    /\ queryVector = <<>>
    /\ querySparseVector = {}
    /\ request = NoRequest
    /\ iter = 0
    /\ result = EmptyResultSet
    /\ allDocs = NilDocs
    /\ batches = <<>>
    /\ found = NilDocs
    /\ docs = NilDocs
    /\ err = ""
    /\ trace = <<>>
    /\ cancelledAt = -1
    /\ reply = NoReply
    /\ calls = <<>>
    /\ ix = NoIndexer

\* r.embedQuery(ctx, emb, query)
CallEmbedQuery ==
    /\ pc = "embed"
    /\ \E out \in IF co.Embedding = "nil" THEN {NoReply} ELSE EmbedReplies :
          LET ret == embedQuery(co.Embedding, out) IN
          /\ reply' = out
          /\ queryVector' = ret.vector
          /\ err' = ret.err
          /\ trace' = Append(trace, Ev("embedQuery",
                                       IF ret.err = "" THEN "ok" ELSE "err"))
    /\ pc' = "embedded"
    /\ UNCHANGED <<ix, calls, cancelledAt, config, query, opts, co, querySparseVector,
                   request, iter, result, allDocs, batches, found, docs>>

\* r.embedSparseQuery(ctx, emb, query)
CallEmbedSparseQuery ==
    /\ pc = "embed"
    /\ \E out \in IF config.SparseEmbedding = "nil" THEN {NoReply}
                   ELSE SparseOutcomes :
          LET ret == embedSparseQuery(config.SparseEmbedding, out) IN
          /\ reply' = out
          /\ querySparseVector' = ret.vector
          /\ err' = ret.err
          /\ trace' = Append(trace, Ev("embedSparseQuery",
                                       IF ret.err = "" THEN "ok" ELSE "err"))
    /\ pc' = "embedded"
    /\ UNCHANGED <<ix, calls, cancelledAt, config, query, opts, co, queryVector,
                   request, iter, result, allDocs, batches, found, docs>>

EmbedNext == CallEmbedQuery \/ CallEmbedSparseQuery

EmbedSpec == EmbedInit /\ [][EmbedNext]_vars

\* RetrieverConfig.validate called directly, as TestRetrieverConfig_validate
\* calls it, on configs with every field set or unset.
ValidateConfigInputs ==
    {[RetrieverConfig(client, topK, NilPtr, mode, conv, emb, "nil") EXCEPT
            !.ClientConfig = clientConfig, !.Collection = collection,
            !.VectorField = field] :
        client \in BOOLEAN, clientConfig \in BOOLEAN,
        topK \in {-1, 0, 100},
        mode \in {NilMode, NewApproximate(""), NewScalar,
                  NewHybrid(<<SubRequest("", L2, 0, {}, DenseVector)>>)},
        conv \in {"nil", "custom"}, emb \in {"nil", "emb"},
        collection \in {"", "my_collection"}, field \in {"", "my_vector"}}

ValidateInit ==
    /\ pc = "validate"
    /\ config \in ValidateConfigInputs
    /\ co = Options(NilPtr, NilPtr, NilPtr, "nil")
    /\ query = ""
    /\ opts = NoOptions
    /\ queryVector = <<>>
    /\ querySparseVector = {}
    /\ request = NoRequest
    /\ iter = 0
    /\ result = EmptyResultSet
    /\ allDocs = NilDocs
    /\ batches = <<>>
    /\ found = NilDocs
    /\ docs = NilDocs
    /\ err = ""
    /\ trace = <<>>
    /\ cancelledAt = -1
    /\ reply = NoReply
    /\ calls = <<>>
    /\ ix = NoIndexer

\* config.validate()
CallValidate ==
    /\ pc = "validate"
    /\ err' = validateErr(config)
    /\ config' = IF validateErr(config) = "" THEN validate(config) ELSE config
    /\ pc' = IF validateErr(config) = "" THEN "validated" ELSE "rejected"
    /\ UNCHANGED <<ix, calls, reply, cancelledAt, query, opts, co, queryVector,
                   querySparseVector, request, iter, result, allDocs, batches,
                   found, docs, trace>>

ValidateSpec == ValidateInit /\ [][CallValidate]_vars

\* Concurrent Retrieve calls on one retriever in a standard search mode,
\* each with its own overrides: the retriever's config is shared, the
\* options, the query vector and the request are locals of the call.
ConcurrentOptionInputs ==
    {CallOptions(topK, NilPtr, embedding, filter, grouping) :
        topK \in {NilPtr, Ptr(1)},
        embedding \in {NilPtr, Ptr("emb2")},
        filter \in {"", "category == 'A'"},
        grouping \in {NilPtr, Ptr([GroupByField |-> "category", GroupSize |-> 2,
                                   StrictGroupSize |-> TRUE])}}

\* The vector a provider returns: each provider its own.
ProviderVector(emb) == IF emb = "emb2" THEN <<2>> ELSE <<1>>

IdleCall == [pc |-> "idle", opts |-> NoOptions,
             co |-> Options(NilPtr, NilPtr, NilPtr, "nil"),
             queryVector |-> <<>>, request |-> NoRequest]

ConcurrentInit ==
    /\ pc = "serving"
    /\ config \in {validate(RetrieverConfig(TRUE, 3, NilPtr, mode, "nil", "emb", "nil")) :
                      mode \in {NewApproximate(""), NewRange("", 1)}}
    /\ calls = [c \in 1..MaxCalls |-> IdleCall]
    /\ co = Options(NilPtr, NilPtr, NilPtr, "nil")
    /\ query = "test query"
    /\ opts = NoOptions
    /\ queryVector = <<>>
    /\ querySparseVector = {}
    /\ request = NoRequest
    /\ iter = 0
    /\ result = EmptyResultSet
    /\ allDocs = NilDocs
    /\ batches = <<>>
    /\ found = NilDocs
    /\ docs = NilDocs
    /\ err = ""
    /\ trace = <<>>
    /\ cancelledAt = -1
    /\ reply = NoReply
    /\ ix = NoIndexer

CallUnchanged ==
    UNCHANGED <<pc, query, opts, co, queryVector, querySparseVector, request,
                iter, result, allDocs, batches, found, docs, err, trace,
                cancelledAt, reply, ix>>

StartCallStoresTopK(c) ==
    /\ calls[c].pc = "idle"
    /\ \E o \in ConcurrentOptionInputs :
          LET resolved == GetCommonOptions(
                              Options(Ptr(config.VectorField), Ptr(config.TopK),
                                      config.ScoreThreshold, config.Embedding), o)
          IN /\ calls' = [calls EXCEPT ![c] = [@ EXCEPT !.pc = "embedDense",
                                                        !.opts = o,
                                                        !.co = resolved]]
             /\ config' = [config EXCEPT !.TopK = resolved.TopK.v]
    /\ CallUnchanged

\* Retrieve of call c, up to the type switch: the options of the call are
\* resolved over the config's values.
StartCall(c) ==
    /\ calls[c].pc = "idle"
    /\ \E o \in ConcurrentOptionInputs :
          calls' = [calls EXCEPT ![c] = [@ EXCEPT
                        !.pc = "embedDense",
                        !.opts = o,
                        !.co = GetCommonOptions(
                                  Options(Ptr(config.VectorField), Ptr(config.TopK),
                                          config.ScoreThreshold, config.Embedding), o)]]
    /\ UNCHANGED config
    /\ CallUnchanged

\* retrieveStandard of call c: embedQuery with the provider of the call.
EmbedCall(c) ==
    /\ calls[c].pc = "embedDense"
    /\ LET out == [err |-> FALSE, vectors |-> <<ProviderVector(calls[c].co.Embedding)>>]
       IN calls' = [calls EXCEPT ![c] = [@ EXCEPT
                        !.pc = "build",
                        !.queryVector = embedQuery(calls[c].co.Embedding, out).vector]]
    /\ UNCHANGED config
    /\ CallUnchanged

\* retrieveStandard of call c: BuildSearchOption.
BuildCall(c) ==
    /\ calls[c].pc = "build"
    /\ calls' = [calls EXCEPT ![c] = [@ EXCEPT
                     !.pc = "execute",
                     !.request = BuildSearchOption(config.SearchMode, config,
                                                   calls[c].queryVector,
                                                   calls[c].opts).opt]]
    /\ UNCHANGED config
    /\ CallUnchanged

ConcurrentNext ==
    \E c \in 1..MaxCalls : StartCall(c) \/ EmbedCall(c) \/ BuildCall(c)

ConcurrentSpec == ConcurrentInit /\ [][ConcurrentNext]_vars

\* The indexer: NewIndexer on an engine whose collection is absent, or
\* present with or without an index and loaded or not, then Store calls.
EngineInputs ==
    {Collection(FALSE, {}, 0, FALSE), Collection(TRUE, {"vector"}, 0, FALSE),
     Collection(TRUE, {"vector"}, 1, FALSE), Collection(TRUE, {"vector"}, 1, TRUE)}
IndexerConfigInputs ==
    {IndexerConfig(client, clientConfig, dimension, field, sparse, emb, conv) :
        client \in BOOLEAN, clientConfig \in BOOLEAN, dimension \in {0, 128},
        field \in {"", "my_vector"}, sparse \in {"", "sparse_vector"},
        emb \in {"nil", "emb"}, conv \in {"nil", "custom"}}
StoreDocInputs ==
    Seqs({StoreDoc("a", TRUE), StoreDoc("b", FALSE)}, MaxStoreDocs)

IndexerInit ==
    /\ pc = "newIndexer"
    /\ config \in IndexerConfigInputs
    /\ \E engine \in EngineInputs : ix = [NoIndexer EXCEPT !.engine = engine]
    /\ co = Options(NilPtr, NilPtr, NilPtr, "nil")
    /\ query = ""
    /\ opts = NoOptions
    /\ queryVector = <<>>
    /\ querySparseVector = {}
    /\ request = NoRequest
    /\ iter = 0
    /\ result = EmptyResultSet
    /\ allDocs = NilDocs
    /\ batches = <<>>
    /\ found = NilDocs
    /\ docs = NilDocs
    /\ err = ""
    /\ trace = <<>>
    /\ cancelledAt = -1
    /\ reply = NoReply
    /\ calls = <<>>

IndexerUnchanged ==
    UNCHANGED <<query, opts, co, queryVector, querySparseVector, request, iter,
                result, allDocs, batches, found, docs, cancelledAt, reply, calls>>

\* NewIndexer returns nil and an error.
NewIndexerFail(msg) ==
    /\ pc' = "noIndexer"
    /\ err' = msg

\* NewIndexer: validate, then the client.
NewIndexer ==
    /\ pc = "newIndexer"
    /\ \E newClient \in {"ok", "err"} :
          IF indexerValidateErr(config) # ""
          THEN /\ NewIndexerFail(indexerValidateErr(config))
               /\ UNCHANGED <<config, trace>>
          ELSE /\ config' = indexerValidate(config)
               /\ IF config.Client
                  THEN /\ pc' = "hasCollection"
                       /\ UNCHANGED <<err, trace>>
                  ELSE /\ trace' = Append(trace, Ev("New", newClient))
                       /\ IF newClient = "err"
                          THEN NewIndexerFail("[NewIndexer] failed to create milvus client")
                          ELSE pc' = "hasCollection" /\ UNCHANGED err
    /\ UNCHANGED ix
    /\ IndexerUnchanged

\* NewIndexer: cli.HasCollection and the dimension check.
HasCollection ==
    /\ pc = "hasCollection"
    /\ \/ /\ trace' = Append(trace, Ev("HasCollection", "err"))
          /\ NewIndexerFail("[NewIndexer] failed to check collection")
       \/ /\ trace' = Append(trace, Ev("HasCollection",
                               IF ix.engine.exists THEN "present" ELSE "absent"))
          /\ IF ix.engine.exists
             THEN pc' = "getLoadState" /\ UNCHANGED err
             ELSE IF config.Dimension <= 0
             THEN NewIndexerFail("[NewIndexer] dimension is required when collection does not exist")
             ELSE pc' = "createCollection" /\ UNCHANGED err
    /\ UNCHANGED <<config, ix>>
    /\ IndexerUnchanged

\* createCollection
CreateCollection ==
    /\ pc = "createCollection"
    /\ IF config.VectorField = "" /\ config.SparseVectorField = ""
       THEN /\ NewIndexerFail("[NewIndexer] at least one vector field (dense or sparse) is required")
            /\ UNCHANGED <<ix, trace>>
       ELSE \/ /\ trace' = Append(trace, Ev("CreateCollection", "err"))
               /\ NewIndexerFail("[NewIndexer] failed to create collection")
               /\ UNCHANGED ix
            \/ /\ trace' = Append(trace, Ev("CreateCollection", "ok"))
               /\ ix' = [ix EXCEPT !.engine =
                            Collection(TRUE, SchemaFields(config), 0, FALSE)]
               /\ pc' = "getLoadState"
               /\ UNCHANGED err
    /\ UNCHANGED config
    /\ IndexerUnchanged

\* NewIndexer: cli.GetLoadState
GetLoadState ==
    /\ pc = "getLoadState"
    /\ \/ /\ trace' = Append(trace, Ev("GetLoadState", "err"))
          /\ NewIndexerFail("[NewIndexer] failed to get load state")
       \/ /\ trace' = Append(trace, Ev("GetLoadState",
                               IF ix.engine.loaded THEN "loaded" ELSE "notLoaded"))
          /\ pc' = IF ix.engine.loaded THEN "ready" ELSE "listIndexes"
          /\ UNCHANGED err
    /\ UNCHANGED <<config, ix>>
    /\ IndexerUnchanged

ListIndexesAlwaysCreates ==
    /\ pc = "listIndexes"
    /\ \E out \in {"err", "list"} \cup
                  (IF ix.engine.indexes = 0 THEN {"index not found"} ELSE {}) :
          /\ trace' = Append(trace, Ev("ListIndexes",
                               IF out = "list" /\ ix.engine.indexes = 0 THEN "empty"
                               ELSE out))
          /\ IF out = "err"
             THEN NewIndexerFail("[NewIndexer] failed to list indexes")
             ELSE pc' = "createIndex" /\ UNCHANGED err
    /\ UNCHANGED <<config, ix>>
    /\ IndexerUnchanged

\* NewIndexer: cli.ListIndexes; an "index not found" error counts as an
\* empty list.
ListIndexes ==
    /\ pc = "listIndexes"
    /\ \E out \in {"err", "list"} \cup
                  (IF ix.engine.indexes = 0 THEN {"index not found"} ELSE {}) :
          /\ trace' = Append(trace, Ev("ListIndexes",
                               IF out = "list" /\ ix.engine.indexes = 0 THEN "empty"
                               ELSE out))
          /\ IF out = "err"
             THEN NewIndexerFail("[NewIndexer] failed to list indexes")
             ELSE /\ pc' = IF ix.engine.indexes = 0 THEN "createIndex"
                           ELSE "loadCollection"
                  /\ UNCHANGED err
    /\ UNCHANGED <<config, ix>>
    /\ IndexerUnchanged

\* The calls of createIndex for one field: CreateIndex, then Await.
IndexOutcomes == {"ok", "err", "awaitErr"}

\* createIndex: the dense index when there is a vector field, then the
\* sparse index when there is a sparse field.
CreateIndex ==
    /\ pc = "createIndex"
    /\ \E dense \in IF config.VectorField # "" THEN IndexOutcomes ELSE {"none"},
          sparse \in IF config.SparseVectorField # "" THEN IndexOutcomes ELSE {"none"} :
          LET denseOK == dense \in {"ok", "none"}
              denseEv == IF dense = "none" THEN <<>> ELSE <<Ev("CreateIndex", dense)>>
              sparseEv == IF sparse = "none" \/ ~denseOK THEN <<>>
                          ELSE <<Ev("CreateSparseIndex", sparse)>>
              made == (IF dense = "ok" THEN 1 ELSE 0)
                      + (IF denseOK /\ sparse = "ok" THEN 1 ELSE 0)
          IN /\ denseOK \/ sparse = "ok" \/ sparse = "none"
             /\ trace' = trace \o denseEv \o sparseEv
             /\ ix' = [ix EXCEPT !.engine.indexes = @ + made]
             /\ IF dense = "err"
                THEN NewIndexerFail("[NewIndexer] failed to create index")
                ELSE IF dense = "awaitErr"
                THEN NewIndexerFail("[NewIndexer] failed to await index creation")
                ELSE IF sparse = "err"
                THEN NewIndexerFail("[NewIndexer] failed to create sparse index")
                ELSE IF sparse = "awaitErr"
                THEN NewIndexerFail("[NewIndexer] failed to await sparse index creation")
                ELSE pc' = "loadCollection" /\ UNCHANGED err
    /\ UNCHANGED config
    /\ IndexerUnchanged

\* NewIndexer: cli.LoadCollection and the await of its task.
LoadCollection ==
    /\ pc = "loadCollection"
    /\ \E out \in {"ok", "err", "awaitErr"} :
          /\ trace' = Append(trace, Ev("LoadCollection", out))
          /\ IF out = "err"
             THEN NewIndexerFail("[NewIndexer] failed to load collection") /\ UNCHANGED ix
             ELSE IF out = "awaitErr"
             THEN NewIndexerFail("[NewIndexer] failed to await collection load")
                  /\ UNCHANGED ix
             ELSE /\ ix' = [ix EXCEPT !.engine.loaded = TRUE]
                  /\ pc' = "ready"
                  /\ UNCHANGED err
    /\ UNCHANGED config
    /\ IndexerUnchanged

\* Store returns nil and an error.
StoreFail(msg) ==
    /\ pc' = "stored"
    /\ err' = msg

\* Indexer.Store, up to the embedding.
Store ==
    /\ pc = "ready"
    /\ \E ds \in StoreDocInputs :
          ix' = [ix EXCEPT !.docs = ds, !.vectors = <<>>, !.inserted = <<>>,
                           !.ids = NilIDs]
    /\ trace' = <<>>
    /\ err' = ""
    /\ pc' = IF config.Embedding # "nil" THEN "storeEmbed" ELSE "storeConvert"
    /\ UNCHANGED config
    /\ IndexerUnchanged

\* Store: emb.EmbedStrings on the contents of the documents.
StoreEmbed ==
    /\ pc = "storeEmbed"
    /\ \/ /\ trace' = Append(trace, Ev("EmbedStrings", "err"))
          /\ StoreFail("[Indexer.Store] failed to embed documents")
          /\ UNCHANGED ix
       \/ \E n \in 0..(Len(ix.docs) + 1) :
             /\ trace' = Append(trace, Ev("EmbedStrings",
                                  IF n = Len(ix.docs) THEN "ok" ELSE "shape"))
             /\ ix' = [ix EXCEPT !.vectors = [i \in 1..n |-> <<1>>]]
             /\ IF n # Len(ix.docs)
                THEN StoreFail("[Indexer.Store] embedding result length mismatch")
                ELSE pc' = "storeConvert" /\ UNCHANGED err
    /\ UNCHANGED config
    /\ IndexerUnchanged

\* Store: i.config.DocumentConverter, the default one or a caller's, which
\* converts or fails.
StoreConvert ==
    /\ pc = "storeConvert"
    /\ \E e \in IF config.DocumentConverter = "default"
                 THEN {indexerConvertErr(ix.docs, ix.vectors)}
                 ELSE {"", "converter failed"} :
          /\ trace' = Append(trace, Ev("Convert", IF e = "" THEN "ok" ELSE "err"))
          /\ IF e # ""
             THEN StoreFail("[Indexer.Store] failed to convert documents")
             ELSE pc' = "storeInsert" /\ UNCHANGED err
    /\ UNCHANGED <<config, ix>>
    /\ IndexerUnchanged

\* Store: i.client.Insert; the engine reports the ids of the rows.
StoreInsert ==
    /\ pc = "storeInsert"
    /\ \/ /\ trace' = Append(trace, Ev("Insert", "err"))
          /\ StoreFail("[Indexer.Store] failed to insert documents")
          /\ UNCHANGED ix
       \/ /\ trace' = Append(trace, Ev("Insert", "ok"))
          /\ ix' = [ix EXCEPT !.inserted = [i \in 1..Len(ix.docs) |-> ix.docs[i].ID]]
          /\ pc' = "storeFlush"
          /\ UNCHANGED err
    /\ UNCHANGED config
    /\ IndexerUnchanged

\* Store: i.client.Flush
StoreFlush ==
    /\ pc = "storeFlush"
    /\ \E out \in {"ok", "err"} :
          /\ trace' = Append(trace, Ev("Flush", out))
          /\ IF out = "err"
             THEN StoreFail("[Indexer.Store] failed to flush collection")
             ELSE pc' = "storeAwait" /\ UNCHANGED err
    /\ UNCHANGED <<config, ix>>
    /\ IndexerUnchanged

StoreAwaitKeepsIDs ==
    /\ pc = "storeAwait"
    /\ \E out \in {"ok", "err", "idErr"} :
          /\ trace' = Append(trace, Ev("AwaitFlush", IF out = "err" THEN "err" ELSE "ok"))
          /\ ix' = [ix EXCEPT !.ids = IDs(ix.inserted)]
          /\ IF out = "err"
             THEN StoreFail("[Indexer.Store] failed to await flush")
             ELSE pc' = "stored" /\ UNCHANGED err
    /\ UNCHANGED config
    /\ IndexerUnchanged

\* Store: flushTask.Await, then the ids of the insert result as strings.
StoreAwait ==
    /\ pc = "storeAwait"
    /\ \E out \in {"ok", "err", "idErr"} :
          /\ trace' = Append(trace, Ev("AwaitFlush", IF out = "err" THEN "err" ELSE "ok"))
          /\ IF out = "err"
             THEN StoreFail("[Indexer.Store] failed to await flush") /\ UNCHANGED ix
             ELSE IF out = "idErr" /\ Len(ix.inserted) > 0
             THEN StoreFail("[Indexer.Store] failed to get id") /\ UNCHANGED ix
             ELSE /\ ix' = [ix EXCEPT !.ids = IDs(ix.inserted)]
                  /\ pc' = "stored"
                  /\ UNCHANGED err
    /\ UNCHANGED config
    /\ IndexerUnchanged

IndexerNext ==
    \/ NewIndexer
    \/ HasCollection
    \/ CreateCollection
    \/ GetLoadState
    \/ ListIndexes
    \/ CreateIndex
    \/ LoadCollection
    \/ Store
    \/ StoreEmbed
    \/ StoreConvert
    \/ StoreInsert
    \/ StoreFlush
    \/ StoreAwait

IndexerSpec == IndexerInit /\ [][IndexerNext]_vars

\* applyScoreThreshold alone, at the tail of Retrieve, on every list of up
\* to MaxDocs documents: a document's "score" entry is a float64, a string
\* or missing.
ScoreInputs == {F64(s) : s \in 0..MaxScore} \cup {Str("x"), Absent}
DocListInputs ==
    {NilDocs}
    \cup UNION {{Docs([i \in 1..n |->
                        [NewDoc EXCEPT !.ID = ToString(i),
                                       !.MetaData["score"] = scores[i]]]) :
                    scores \in [1..n -> ScoreInputs]} : n \in 0..MaxDocs}

FilterInit ==
    /\ pc = "filter"
    /\ \E th \in ThresholdInputs :
          /\ config = validate(RetrieverConfig(TRUE, 0, th, NewApproximate(""),
                                               "nil", "emb", "nil"))
          /\ co = Options(Ptr(defaultVectorField), Ptr(defaultTopK), th, "emb")
    /\ found \in DocListInputs
    /\ query = "id > 0"
    /\ opts = NoOptions
    /\ queryVector = <<>>
    /\ querySparseVector = {}
    /\ request = NoRequest
    /\ iter = 0
    /\ result = EmptyResultSet
    /\ allDocs = NilDocs
    /\ batches = <<>>
    /\ docs = NilDocs
    /\ err = ""
    /\ trace = <<>>
    /\ cancelledAt = -1
    /\ reply = NoReply
    /\ calls = <<>>
    /\ ix = NoIndexer

FilterSpec == FilterInit /\ [][ApplyThreshold]_vars

-----------------------------------------------------------------------------
(* Properties *)

Returned == pc = "done" /\ err = ""
Failed == pc = "done" /\ err # ""

Ops == [i \in 1..Len(trace) |-> trace[i].op]
HasOp(op) == \E i \in 1..Len(trace) : trace[i].op = op
CountOp(op) == Cardinality({i \in 1..Len(trace) : trace[i].op = op})

RECURSIVE Flatten(_)
Flatten(ss) == IF ss = <<>> THEN <<>> ELSE Head(ss) \o Flatten(Tail(ss))

\* C1: with a threshold, the documents Retrieve returns are exactly the
\* documents of the branch whose metadata carries a float64 "score" that is
\* not below the threshold, in their original order; without a threshold the
\* list of the branch is returned unchanged.
C1_ScoreThreshold ==
    Returned =>
        IF co.ScoreThreshold.nil THEN docs = found
        ELSE /\ ~docs.nil
             /\ docs.list = SelectSeq(found.list,
                    LAMBDA d : /\ d.MetaData["score"].t = "float64"
                               /\ ~(d.MetaData["score"].n < co.ScoreThreshold.v))

\* C1 witness: a call with a threshold that kept a document and dropped one
\* with a lower score and one without a float64 score.
C1_Witness ==
    /\ Returned
    /\ ~co.ScoreThreshold.nil
    /\ Len(docs.list) >= 1
    /\ \E i \in 1..Len(found.list) :
          /\ found.list[i].MetaData["score"].t = "float64"
          /\ found.list[i].MetaData["score"].n < co.ScoreThreshold.v
    /\ \E i \in 1..Len(found.list) : found.list[i].MetaData["score"].t # "float64"

\* C2: the limit of a built hybrid request is the call-option top-K when one
\* was passed, else Hybrid.TopK when it is positive, else RetrieverConfig.TopK.
C2_HybridTopKPrecedence ==
    (request.kind = "hybrid") =>
        request.limit = IF ~opts.TopK.nil THEN opts.TopK.v
                        ELSE IF config.SearchMode.TopK > 0
                        THEN config.SearchMode.TopK
                        ELSE config.TopK

\* C3: when a call-option top-K is present, the limit of the request built
\* by Approximate, Range, Scalar and Hybrid is the call-option value.
C3_CallTopKWins ==
    (request.kind \in {"search", "query", "hybrid"} /\ ~opts.TopK.nil) =>
        request.limit = opts.TopK.v

\* C3 witness: an Approximate request built under a call-option top-K that
\* differs from the config's.
C3_Witness ==
    /\ request.kind = "search"
    /\ config.SearchMode.impl = "Approximate"
    /\ ~opts.TopK.nil
    /\ opts.TopK.v # config.TopK
    /\ request.limit = opts.TopK.v

EngineOps == {"Query", "HybridSearch", "SearchIterator", "Search"}
EngineOpsDone == {i \in 1..Len(trace) : trace[i].op \in EngineOps}

\* The engine operation of each search mode.
ModeOp(sm) ==
    IF IsQuerySearchMode(sm) THEN "Query"
    ELSE IF IsHybridSearchMode(sm) THEN "HybridSearch"
    ELSE IF IsIteratorSearchMode(sm) THEN "SearchIterator"
    ELSE "Search"

\* The stage of a step: embed, build, execute, fetch and convert, filter.
Stage(op) ==
    CASE op \in {"EmbedStrings", "SparseEmbedStrings"} -> 1
      [] op = "Build" -> 2
      [] op \in EngineOps -> 3
      [] op \in {"Next", "Convert"} -> 4
      [] OTHER -> 5

\* C4: a call issues engine operations of the one kind of its mode, at most
\* once and exactly once when it returns documents; Scalar mode never calls
\* an embedding provider and queries with the query text as filter; the
\* modes other than Scalar and Hybrid embed with the dense provider only
\* before they search; the steps come in the order embed, build, execute,
\* convert, filter, and the filter is the last step of a call that returns.
C4_Dispatch ==
    /\ \A i \in EngineOpsDone : trace[i].op = ModeOp(config.SearchMode)
    /\ Cardinality(EngineOpsDone) <= 1
    /\ Returned => /\ Cardinality(EngineOpsDone) = 1
                   /\ trace[Len(trace)].op = "Filter"
                   /\ CountOp("Filter") = 1
    /\ IsQuerySearchMode(config.SearchMode) =>
            ~HasOp("EmbedStrings") /\ ~HasOp("SparseEmbedStrings")
    /\ (config.SearchMode.impl = "Scalar" /\ request.kind = "query"
            /\ opts.Filter = "") => request.filter = query
    /\ (~IsQuerySearchMode(config.SearchMode)
            /\ ~IsHybridSearchMode(config.SearchMode)
            /\ EngineOpsDone # {}) =>
            /\ trace[1].op = "EmbedStrings"
            /\ ~HasOp("SparseEmbedStrings")
    /\ \A i, j \in 1..Len(trace) :
            i < j => Stage(trace[i].op) <= Stage(trace[j].op)

\* C4 witness: a Scalar call that returned after build, query, convert and
\* filter, although an embedding provider was configured.
C4_Witness ==
    /\ Returned
    /\ config.SearchMode.impl = "Scalar"
    /\ config.Embedding # "nil"
    /\ Ops = <<"Build", "Query", "Convert", "Filter">>

\* C5: a built hybrid request has at least one sub-request, and no hybrid
\* search reaches the engine without one.
C5_HybridNeedsSubRequest ==
    /\ (request.kind = "hybrid") => Len(request.subRequests) >= 1
    /\ HasOp("HybridSearch") => Len(request.subRequests) >= 1

\* Whether the vector of a sub-request's kind was supplied to the builder.
Supplied(r) ==
    IF r.VectorType = SparseVector THEN querySparseVector # {}
    ELSE queryVector # <<>>

\* C6: the build of a Hybrid mode succeeds, and its request holds exactly
\* the configured sub-requests whose vector kind was supplied (non-empty),
\* in configuration order, each on its field and with a vector of its kind.
C6_SkippedSubRequests ==
    /\ (config.SearchMode.impl = "Hybrid" /\ Len(trace) > 0
            /\ trace[Len(trace)].op = "Build") =>
            pc = "execute" /\ err = "" /\ request.kind = "hybrid"
    /\ (request.kind = "hybrid") =>
            LET kept == SelectSeq(config.SearchMode.SubRequests,
                                  LAMBDA r : Supplied(r))
            IN /\ Len(request.subRequests) = Len(kept)
               /\ \A i \in 1..Len(kept) :
                    /\ request.subRequests[i].vector.kind =
                         (IF kept[i].VectorType = SparseVector
                          THEN SparseVector ELSE DenseVector)
                    /\ request.subRequests[i].field =
                         (IF kept[i].VectorField = "" THEN config.VectorField
                          ELSE kept[i].VectorField)

\* C6 witness: a hybrid request built from a dense and a sparse sub-request
\* with no sparse vector: only the dense sub-request is in it.
C6_Witness ==
    /\ request.kind = "hybrid"
    /\ Len(config.SearchMode.SubRequests) = 2
    /\ \E i \in 1..2 : config.SearchMode.SubRequests[i].VectorType = SparseVector
    /\ querySparseVector = {}
    /\ Len(request.subRequests) = 1
    /\ request.subRequests[1].vector.kind = DenseVector

ValidationErrors ==
    {"[NewRetriever] milvus client or client config not provided",
     "[NewRetriever] search mode not provided",
     "[NewRetriever] embedding not provided"}

BatchDocs ==
    Flatten([i \in 1..Len(batches) |-> defaultDocumentConverter(batches[i]).list])

\* C8: in Iterator mode the documents retrieveIterator returns, and Retrieve
\* returns when no threshold is set, are the converted documents of the
\* fetched batches concatenated in arrival order, and a batch is fetched
\* only when every batch before it has been converted.
C8_IteratorOrder ==
    IsIteratorSearchMode(config.SearchMode) =>
        /\ (pc \in {"filter", "done"} /\ err = "") => found.list = BatchDocs
        /\ (Returned /\ co.ScoreThreshold.nil) => docs.list = BatchDocs
        /\ pc = "next" => CountOp("Convert") = Len(batches)
        /\ CountOp("Next") <= CountOp("Convert") + 1

\* C8 witness: an Iterator call returned the documents of two different
\* batches.
C8_Witness ==
    /\ Returned
    /\ config.SearchMode.impl = "Iterator"
    /\ co.ScoreThreshold.nil
    /\ Len(batches) = 2
    /\ defaultDocumentConverter(batches[1]) # defaultDocumentConverter(batches[2])
    /\ Len(docs.list) >= 2

\* A fetch that ended the loop: the end-of-results signal or a batch
\* without rows.
EndingFetch(i) == trace[i].op = "Next" /\ trace[i].out \in {"EOF", "empty"}

C9_Stops ==
    \A i \in 1..Len(trace) :
        EndingFetch(i) =>
            /\ err = ""
            /\ pc \in {"filter", "done"}
            /\ found = allDocs
            /\ \A j \in 1..Len(trace) :
                    /\ j > i => trace[j].op = "Filter"
                    /\ (j < i /\ trace[j].op = "Next") => trace[j].out = "rows"
            /\ pc = "done" => docs = applyScoreThreshold(allDocs, co.ScoreThreshold)

\* C9: in Iterator mode a fetch that reports the "EOF" error or a batch of
\* zero rows is the first of its kind and the last fetch, it is no error,
\* Retrieve returns the documents accumulated before it, and with an engine
\* that ends its results every call terminates.
C9_IteratorStops == [](C9_Stops) /\ <>(pc \in {"done", "rejected"})

\* C9 witness: a call that returned the documents of one batch after the
\* end-of-results signal.
C9_Witness ==
    /\ Returned
    /\ Len(batches) = 1
    /\ trace[Len(trace) - 1] = Ev("Next", "EOF")
    /\ Len(docs.list) >= 1

FailureOuts == {"err", "shape", "unexpected EOF", "rpc error"}

\* C10: a failed embedding, build, engine call, batch fetch or conversion is
\* the last step of its call, and the call returns a nil document list and
\* a non-nil error without filtering.
C10_NoPartialSuccess ==
    /\ \A i \in 1..Len(trace) :
            trace[i].out \in FailureOuts =>
                /\ i = Len(trace)
                /\ pc = "done"
                /\ docs = NilDocs
                /\ err # ""
    /\ Failed => docs = NilDocs /\ ~HasOp("Filter")

\* C10 witness: a fetch failed after a batch had been accumulated.
C10_Witness ==
    /\ Failed
    /\ Len(allDocs.list) >= 1
    /\ trace[Len(trace)] = Ev("Next", "rpc error")

\* C11: once the context of an Iterator-mode call is cancelled, no further
\* batch fetch is issued: the number of fetches stays what it was at the
\* cancellation.
C11_NoFetchAfterCancel ==
    cancelledAt >= 0 => CountOp("Next") = cancelledAt

\* The last step of the call under way.
LastOp == IF Len(trace) = 0 THEN "" ELSE trace[Len(trace)].op

\* C12: BuildSearchOption on a Hybrid or an Iterator mode returns a nil
\* option and an error that names the mode's specialised builder.
C12_GenericBuilderRefused ==
    (LastOp = "BuildSearchOption" /\ config.SearchMode.impl \in {"Hybrid", "Iterator"}) =>
        /\ request = NoRequest
        /\ err = IF config.SearchMode.impl = "Hybrid"
                 THEN "Hybrid search mode requires BuildHybridSearchOption"
                 ELSE "Iterator search mode requires BuildSearchIteratorOption"

\* C12 witness: BuildSearchOption was called on a Hybrid mode and failed.
C12_Witness ==
    /\ LastOp = "BuildSearchOption"
    /\ config.SearchMode.impl = "Hybrid"
    /\ request = NoRequest
    /\ err # ""

\* C13: the filter of the query request Scalar.BuildQueryOption builds from
\* query text q and call-option filter f is f when q is empty, q when f is
\* empty (the empty filter when both are), and "(q) and (f)" otherwise.
C13_ScalarFilter ==
    (LastOp = "BuildQueryOption") =>
        /\ request.kind = "query"
        /\ query = "" => request.filter = opts.Filter
        /\ opts.Filter = "" => request.filter = query
        /\ (query = "id > 10" /\ opts.Filter = "category == 'A'") =>
                request.filter = "(id > 10) and (category == 'A')"

\* C13 witness: a query request built from a query text and a call-option
\* filter.
C13_Witness ==
    /\ LastOp = "BuildQueryOption"
    /\ query # ""
    /\ opts.Filter # ""
    /\ request.filter = "(id > 10) and (category == 'A')"

\* C14: the query request of Scalar mode carries the effective top-K, the
\* configured partitions and the configured consistency level, whichever
\* of Strong, Session, Bounded and Eventually it is.
C14_ScalarPassThrough ==
    (LastOp = "BuildQueryOption") =>
        /\ request.limit = IF opts.TopK.nil THEN config.TopK ELSE opts.TopK.v
        /\ request.partitions = config.Partitions
        /\ request.consistencyLevel = Ptr(config.ConsistencyLevel)

\* C15: the search request of Approximate and Range targets the configured
\* vector field and carries the metric type of the mode.
C15_MetricType ==
    (LastOp = "BuildSearchOption" /\ config.SearchMode.impl \in {"Approximate", "Range"}) =>
        /\ request.kind = "search"
        /\ request.annsField = config.VectorField
        /\ <<"metric_type", config.SearchMode.MetricType>> \in request.searchParams

\* The rows of a result set that carry an id, and the row the p-th converted
\* document of the call under way came from.
IdRows(rs) ==
    SelectSeq([i \in 1..rs.ResultCount |-> i - 1],
              LAMBDA i : getFieldOK(rs, defaultIDField, i))
Converted == pc \in {"filter", "done"} /\ err = ""
DocRow(p) == IF request.kind = "query" THEN IdRows(result)[p] ELSE p - 1

\* C16: a row without an id yields no document and no error, whatever the
\* search mode: the converted documents are as many as the rows with an id.
C16_RowsWithoutIdSkipped ==
    pc \in {"filter", "done"} =>
        /\ err = ""
        /\ Len(found.list) = Len(IdRows(result))

\* What the metadata blob of row i decodes to (nothing when the cell is
\* missing, not a byte blob or unparsable), and the dynamic columns.
BlobOf(rs, i) ==
    LET val == getField(rs, defaultMetadataField, i)
    IN IF val.t = "bytes" /\ UnmarshalOK(val.n) THEN Unmarshal(val.n) ELSE EmptyMeta
HasBlob(rs, i) ==
    LET val == getField(rs, defaultMetadataField, i)
    IN val.t = "bytes" /\ UnmarshalOK(val.n)
ColumnKeys(rs) ==
    {rs.Fields[j].name : j \in 1..Len(rs.Fields)}
        \ {defaultIDField, defaultContentField, defaultMetadataField}
HasScore(rs, i) == i + 1 <= Len(rs.Scores)

C18_DynamicColumns ==
    Converted =>
        \A p \in 1..Len(found.list) :
            \A j \in 1..Len(result.Fields) :
                LET field == result.Fields[j]
                IN (field.name \in ColumnKeys(result)
                        /\ ColGet(field, DocRow(p)) # CellErr) =>
                       found.list[p].MetaData[field.name] = ColGet(field, DocRow(p))

\* The documents a conversion owes: one per row, or one per row with an id
\* for a query result.
OwedRows == IF request.kind = "query" THEN Len(IdRows(result)) ELSE result.ResultCount

\* C19: the conversion never fails; a row whose metadata cell is not a byte
\* blob or does not parse still yields its document, with no entry from the
\* metadata, and a row whose content column is absent or unreadable yields
\* content "".
C19_Degrades ==
    (pc \in {"filter", "done"} /\ config.DocumentConverter = "default") =>
        /\ err = ""
        /\ Len(found.list) = OwedRows
        /\ \A p \in 1..Len(found.list) :
              LET i == DocRow(p)
                  doc == found.list[p]
              IN /\ ~HasBlob(result, i) =>
                        \A k \in MetaKeys :
                            doc.MetaData[k] # Absent =>
                                /\ request.kind # "query"
                                /\ \/ k \in ColumnKeys(result)
                                   \/ k \in {"score", docMetaDataKeyScore}
                                         /\ HasScore(result, i)
                 /\ ~getFieldOK(result, defaultContentField, i) => doc.Content = ""

\* C19 witness: a row with an unparsable metadata blob and no readable
\* content was converted to a document.
C19_Witness ==
    /\ Converted
    /\ \E p \in 1..Len(found.list) :
          /\ getField(result, defaultMetadataField, DocRow(p)) = Bytes(4)
          /\ ~getFieldOK(result, defaultContentField, DocRow(p))
          /\ found.list[p].Content = ""

\* The provider handed to the embedding call made last.
EmbedProvider ==
    IF LastOp = "embedQuery" THEN co.Embedding ELSE config.SparseEmbedding

\* C20: embedQuery and embedSparseQuery fail, with no vector, exactly when
\* there is no provider, the provider fails, or it returns a number of
\* vectors other than one; otherwise the result has one element per element
\* of the provider's vector, each the conversion of that element alone (the
\* element itself wherever float32 holds it exactly).
C20_EmbedFailures ==
    (LastOp \in {"embedQuery", "embedSparseQuery"}) =>
        /\ err # "" <=> \/ EmbedProvider = "nil"
                        \/ reply.err
                        \/ Len(reply.vectors) # 1
        /\ err # "" => queryVector = <<>> /\ querySparseVector = {}
        /\ (err = "" /\ LastOp = "embedQuery") =>
              /\ Len(queryVector) = Len(reply.vectors[1])
              /\ \A i \in 1..Len(queryVector) :
                    /\ queryVector[i] = Float32(reply.vectors[1][i])
                    /\ reply.vectors[1][i] < 16777216 =>
                            queryVector[i] = reply.vectors[1][i]
        /\ (err = "" /\ LastOp = "embedSparseQuery") =>
              querySparseVector = reply.vectors[1]

\* C20 witness: a reply of one vector of MaxDim elements, one of them not
\* representable, was converted element by element.
C20_Witness ==
    /\ LastOp = "embedQuery"
    /\ err = ""
    /\ Len(reply.vectors) = 1
    /\ reply.vectors[1] = [i \in 1..MaxDim |-> IF i = 1 THEN 1 ELSE 16777217]
    /\ queryVector = [i \in 1..MaxDim |-> IF i = 1 THEN 1 ELSE 16777216]

\* The fields of a RetrieverConfig that validate may fill in.
DefaultedFields == {"Collection", "VectorField", "TopK", "DocumentConverter"}

\* C21: validate rejects a config with neither Client nor ClientConfig, with
\* no SearchMode, or with no Embedding unless the mode is a QuerySearchMode;
\* otherwise it accepts, fills the empty Collection, the empty VectorField,
\* the TopK <= 0 and the nil DocumentConverter with their defaults, and
\* leaves every other value as the caller gave it.
C21_Validate ==
    [][pc = "validate" =>
        /\ err' # "" <=>
              \/ ~config.Client /\ ~config.ClientConfig
              \/ config.SearchMode = NilMode
              \/ config.Embedding = "nil" /\ config.SearchMode.impl # "Scalar"
        /\ err' = "" =>
              /\ config'.Collection = IF config.Collection = "" THEN defaultCollection
                                      ELSE config.Collection
              /\ config'.VectorField = IF config.VectorField = "" THEN defaultVectorField
                                       ELSE config.VectorField
              /\ config'.TopK = IF config.TopK <= 0 THEN defaultTopK ELSE config.TopK
              /\ config'.DocumentConverter =
                    IF config.DocumentConverter = "nil" THEN "default"
                    ELSE config.DocumentConverter
              /\ \A f \in (DOMAIN config) \ DefaultedFields : config'[f] = config[f]
    ]_vars

\* C21 witness: an accepted config whose Collection was defaulted and whose
\* VectorField, TopK and DocumentConverter are the caller's.
C21_Witness ==
    /\ pc = "validated"
    /\ err = ""
    /\ config.Collection = defaultCollection
    /\ config.VectorField = "my_vector"
    /\ config.TopK = 100
    /\ config.DocumentConverter = "custom"

\* Search or HybridSearch answered without an error.
SearchAnswered ==
    \E i \in 1..Len(trace) :
        trace[i].op \in {"Search", "HybridSearch"} /\ trace[i].out = "ok"
ConverterFailed ==
    \E i \in 1..Len(trace) : trace[i].op = "Convert" /\ trace[i].out = "err"

\* C22: when Search or HybridSearch answers with no result set, or with a
\* result set of no rows (which the converter does not refuse), Retrieve
\* returns a non-nil empty document list and a nil error.
C22_EmptyResult ==
    (pc = "done" /\ SearchAnswered /\ result.ResultCount = 0 /\ ~ConverterFailed) =>
        /\ err = ""
        /\ ~docs.nil
        /\ Len(docs.list) = 0

\* C22 witness: Search answered with no result set at all and Retrieve
\* returned.
C22_Witness ==
    /\ pc = "done"
    /\ SearchAnswered
    /\ ~HasOp("Convert")
    /\ err = ""
    /\ ~docs.nil
    /\ docs.list = <<>>

\* The request of call c holds the overrides of call c and, where it has
\* none, the defaults of the config.
OwnRequest(c) ==
    LET o == calls[c].opts
        req == calls[c].request
    IN /\ req.kind = "search"
       /\ req.collection = config.Collection
       /\ req.annsField = config.VectorField
       /\ req.limit = IF o.TopK.nil THEN config.TopK ELSE o.TopK.v
       /\ req.filter = o.Filter
       /\ req.groupByField = IF o.Grouping.nil THEN "" ELSE o.Grouping.v.GroupByField
       /\ req.groupSize = IF o.Grouping.nil THEN 0 ELSE o.Grouping.v.GroupSize
       /\ req.vectors = <<ProviderVector(IF o.Embedding.nil THEN config.Embedding
                                         ELSE o.Embedding.v)>>

\* C23: whatever the interleaving of concurrent Retrieve calls with
\* different overrides, no step changes the RetrieverConfig, and the request
\* each call builds reflects its own overrides and the config's defaults.
C23_CallsIndependent ==
    [][/\ config' = config
       /\ \A c \in 1..MaxCalls : calls'[c].pc = "execute" => OwnRequest(c)'
    ]_vars

\* C23 witness: two calls with different overrides are under way together
\* and both have built their requests.
C23_Witness ==
    /\ pc = "serving"
    /\ calls[1].pc = "execute"
    /\ calls[2].pc = "execute"
    /\ calls[1].opts.TopK = Ptr(1)
    /\ calls[2].opts.TopK = NilPtr
    /\ calls[1].request.limit = 1
    /\ calls[2].request.limit = config.TopK
    /\ calls[1].request.filter # calls[2].request.filter

\* C24: filtering the filtered list again with the same threshold returns
\* the filtered list.
C24_FilterIdempotent ==
    pc = "done" => applyScoreThreshold(docs, co.ScoreThreshold) = docs

\* C24 witness: a threshold removed some documents of a list and kept two
\* or more, and filtering the result again changes nothing.
C24_Witness ==
    /\ pc = "done"
    /\ ~co.ScoreThreshold.nil
    /\ Len(docs.list) >= 2
    /\ Len(docs.list) < Len(found.list)
    /\ applyScoreThreshold(docs, co.ScoreThreshold) = docs

\* The calls NewIndexer makes on the client, in the order of its code.
ProvisioningOrder ==
    <<"New", "HasCollection", "CreateCollection", "GetLoadState", "ListIndexes",
      "CreateIndex", "CreateSparseIndex", "LoadCollection">>
Rank(op) == CHOOSE i \in 1..Len(ProvisioningOrder) : ProvisioningOrder[i] = op
Answered(op, outs) == \E i \in 1..Len(trace) : trace[i].op = op /\ trace[i].out \in outs
FailedOuts == {"err", "awaitErr"}
NewIndexerReturned == pc \in {"ready", "noIndexer"}

StoreOrder == <<"EmbedStrings", "Convert", "Insert", "Flush", "AwaitFlush">>
StoreRank(op) == CHOOSE i \in 1..Len(StoreOrder) : StoreOrder[i] = op
StoreSteps ==
    IF config.Embedding # "nil" THEN StoreOrder ELSE SubSeq(StoreOrder, 2, Len(StoreOrder))

\* C26: Store embeds (when an embedder is configured), converts, inserts,
\* flushes and awaits the flush, in that order; on success it returns the
\* ids of the insert result in order; an embedding of the wrong length or a
\* failed step gives nil ids with an error, and no later step runs.
C26_StoreOrder ==
    pc = "stored" =>
        /\ \A i, j \in 1..Len(trace) :
              i < j => StoreRank(trace[i].op) < StoreRank(trace[j].op)
        /\ \A i \in 1..Len(trace) : trace[i].out # "ok" =>
              i = Len(trace) /\ err # ""
        /\ Ops = SubSeq(StoreSteps, 1, Len(trace))
        /\ err # "" => ix.ids = NilIDs
        /\ err = "" =>
              /\ Ops = StoreSteps
              /\ ix.ids = IDs(ix.inserted)
              /\ Len(ix.ids.list) = Len(ix.docs)
              /\ \A i \in 1..Len(ix.docs) : ix.ids.list[i] = ix.docs[i].ID

\* Store has embedded, converted, inserted and flushed two documents and
\* returned their two ids in order.
C26_Witness ==
    /\ pc = "stored"
    /\ err = ""
    /\ Ops = StoreOrder
    /\ ix.ids = IDs(<<"a", "b">>)

\* A sparse-only configuration: no dimension, no dense field, a sparse field.
SparseOnly(c) == c.Dimension = 0 /\ c.VectorField = "" /\ c.SparseVectorField # ""

\* C27: with Dimension = 0 and a SparseVectorField, validate leaves
\* VectorField empty, and NewIndexer on an absent collection, when no client
\* call fails, creates the collection with the sparse field alone and
\* returns the Indexer.
C27_SparseOnly ==
    /\ (pc = "newIndexer" /\ SparseOnly(config) /\ indexerValidateErr(config) = "") =>
          indexerValidate(config).VectorField = ""
    /\ (NewIndexerReturned /\ SparseOnly(config)
           /\ Answered("HasCollection", {"absent"})
           /\ \A i \in 1..Len(trace) : trace[i].out \notin FailedOuts) =>
          /\ pc = "ready"
          /\ Answered("CreateCollection", {"ok"})
          /\ ix.engine.fields = {config.SparseVectorField}

\* C28: a document the default converter makes from a row with a similarity
\* score has metadata["score"] equal to its first-class score, the engine's
\* score of the row, whatever the blob and the other columns contain.
C28_ScoreEntryIsScore ==
    (Converted /\ request.kind = "search" /\ config.DocumentConverter = "default") =>
        \A p \in 1..Len(found.list) :
            HasScore(result, DocRow(p)) =>
                /\ found.list[p].MetaData["score"] = found.list[p].MetaData[docMetaDataKeyScore]
                /\ found.list[p].MetaData["score"] = F64(result.Scores[DocRow(p) + 1])

\* Whether the metadata blob of row i has a numeric "score" of at least t.
BlobScoreAtLeast(rs, i, t) ==
    BlobOf(rs, i)["score"].t = "float64" /\ BlobOf(rs, i)["score"].n >= t

\* C29: in Scalar mode with a threshold, the filter runs once, after the
\* conversion, and Retrieve returns, in order, the documents of the rows
\* whose metadata blob has a numeric "score" >= threshold and no others;
\* the result is empty when no blob has a "score" key.
C29_ScalarThreshold ==
    (pc = "done" /\ err = "" /\ request.kind = "query" /\ ~co.ScoreThreshold.nil) =>
        /\ CountOp("Filter") = 1
        /\ LastOp = "Filter"
        /\ ~docs.nil
        /\ docs.list = SelectSeq(found.list,
                LAMBDA doc : /\ doc.MetaData["score"].t = "float64"
                             /\ doc.MetaData["score"].n >= co.ScoreThreshold.v)
        /\ \A p \in 1..Len(found.list) :
              (\E q \in 1..Len(docs.list) : docs.list[q] = found.list[p])
                  <=> BlobScoreAtLeast(result, DocRow(p), co.ScoreThreshold.v)
        /\ (\A i \in 0..(result.ResultCount - 1) : BlobOf(result, i)["score"] = Absent)
              => docs.list = <<>>

\* A Scalar query with a threshold converted two rows and kept the one
\* whose blob has a numeric "score", dropping the other.
C29_Witness ==
    /\ pc = "done"
    /\ request.kind = "query"
    /\ ~co.ScoreThreshold.nil
    /\ Len(found.list) = 2
    /\ Len(docs.list) = 1
    /\ docs.list[1].MetaData["score"] = F64(MaxScore)

\* The request the builder of the call under way builds from the same
\* config, query vector and options without the top-K option.
WithoutTopK ==
    BuildSearchOption(config.SearchMode, config, queryVector,
                      [opts EXCEPT !.TopK = NilPtr]).opt
TopKOverridden ==
    /\ LastOp = "BuildSearchOption"
    /\ config.SearchMode.impl \in {"Approximate", "Range"}
    /\ ~opts.TopK.nil

\* C30: the request Approximate.BuildSearchOption or Range.BuildSearchOption
\* builds under a top-K call option is the request built without it, with
\* the limit replaced by the option's value: collection, vector field,
\* output fields, query vector, search parameters (radius, range_filter),
\* partitions, filter and grouping are the same.
C30_TopKChangesLimitOnly ==
    TopKOverridden =>
        /\ err = ""
        /\ WithoutTopK.limit = config.TopK
        /\ request = [WithoutTopK EXCEPT !.limit = opts.TopK.v]

\* Range.BuildSearchOption has built a request under a top-K option on a
\* mode with a range filter, with partitions, a filter and a grouping.
C30_Witness ==
    /\ TopKOverridden
    /\ config.SearchMode.impl = "Range"
    /\ request.limit = 50
    /\ request.limit # WithoutTopK.limit
    /\ <<"range_filter", "0">> \in request.searchParams
    /\ <<"radius", "1">> \in request.searchParams
    /\ request.partitions = <<"partition1", "partition2">>
    /\ request.filter = "category == 'A'"
    /\ request.groupByField = "category"

====
